---- MODULE Spec2Model ----
(***************************************************************************)
(* The Universal Grounding and Verification Protocol (UGVPProtocol):       *)
(* marker construction, the parser and the assembler of                    *)
(* src/src/ugvp_protocol.py, with the configuration of src/src/config.py.  *)
(*                                                                         *)
(* A Python string is a sequence of one-character strings, so that the     *)
(* regular expressions, str.strip, str.split, json.dumps and json.loads    *)
(* are computed character by character.                                    *)
(***************************************************************************)
EXTENDS Integers, Sequences, FiniteSets, TLC

VARIABLES text, origin, input, outcome, asm, parsed, shis, effects, acg_delimiters,
          chunks_to_store

vars == <<text, origin, input, outcome, asm, parsed, shis, effects, acg_delimiters,
          chunks_to_store>>

----------------------------------------------------------------------------
(* Configuration: Config of src/src/config.py *)

SHI_ALGORITHM == "sha256"

SHI_PREFIX_LENGTH == 10

(* a delimiter set whose claim-end token is the claim-start token *)
ACG_DELIMITERS_one_bracket ==
    [CLAIM_START |-> "[", CLAIM_END |-> "[", CLAIM_SEP |-> ":",
     RELATION_START |-> "(", RELATION_END |-> ")", RELATION_SEP |-> ":",
     RELATION_TYPE_SEP |-> ":"]

ACG_DELIMITERS ==
    [CLAIM_START |-> "[", CLAIM_END |-> "]", CLAIM_SEP |-> ":",
     RELATION_START |-> "(", RELATION_END |-> ")", RELATION_SEP |-> ":",
     RELATION_TYPE_SEP |-> ":"]

(* The lower bound of the SHI repetition {8,SHI_PREFIX_LENGTH} of igm_pattern *)
SHI_PREFIX_MIN == 8

----------------------------------------------------------------------------
(* Character classes of Python's re and str *)

Digits == {"0", "1", "2", "3", "4", "5", "6", "7", "8", "9"}

Letters ==
    {"a", "b", "c", "d", "e", "f", "g", "h", "i", "j", "k", "l", "m",
     "n", "o", "p", "q", "r", "s", "t", "u", "v", "w", "x", "y", "z",
     "A", "B", "C", "D", "E", "F", "G", "H", "I", "J", "K", "L", "M",
     "N", "O", "P", "Q", "R", "S", "T", "U", "V", "W", "X", "Y", "Z"}

(* \w *)
WordChars == Letters \cup Digits \cup {"_"}

(* [A-Fa-f0-9]; re.IGNORECASE adds nothing to a class that holds both cases *)
HexChars == Digits \cup {"a", "b", "c", "d", "e", "f", "A", "B", "C", "D", "E", "F"}

(* what str.strip() removes and json.loads skips between tokens *)
Whitespace == {" ", "\n", "\t", "\r"}

----------------------------------------------------------------------------
(* Python string primitives *)

(* s[a-1:b] for 1 <= a, b <= Len(s); empty when a > b *)
Slice(s, a, b) == IF a > b THEN <<>> ELSE SubSeq(s, a, b)

(* whether the literal lit stands in s at index i *)
IsAt(s, i, lit) ==
    /\ i >= 1
    /\ i + Len(lit) - 1 <= Len(s)
    /\ \A k \in 1..Len(lit) : s[i + k - 1] = lit[k]

(* the index of the last character of the longest run of characters of C that
   starts at j (j - 1 when the run is empty) *)
RunIn(s, j, C) ==
    CHOOSE e \in (j - 1)..Len(s) :
        /\ (e = Len(s) \/ s[e + 1] \notin C)
        /\ \A k \in j..e : s[k] \in C

(* the same for the characters outside X: a negated class [^X] *)
RunNotIn(s, j, X) ==
    CHOOSE e \in (j - 1)..Len(s) :
        /\ (e = Len(s) \/ s[e + 1] \in X)
        /\ \A k \in j..e : s[k] \notin X

(* str.strip() *)
strip(s) ==
    LET n == Len(s)
    IN  IF \A i \in 1..n : s[i] \in Whitespace THEN <<>>
        ELSE LET a == CHOOSE i \in 1..n :
                          s[i] \notin Whitespace /\ \A j \in 1..(i - 1) : s[j] \in Whitespace
                 b == CHOOSE i \in 1..n :
                          s[i] \notin Whitespace /\ \A j \in (i + 1)..n : s[j] \in Whitespace
             IN  SubSeq(s, a, b)

RECURSIVE split(_, _)
(* str.split(c) for a one-character separator c *)
split(s, c) ==
    IF \A i \in 1..Len(s) : s[i] # c THEN <<s>>
    ELSE LET p == CHOOSE i \in 1..Len(s) : s[i] = c /\ \A j \in 1..(i - 1) : s[j] # c
         IN  <<Slice(s, 1, p - 1)>> \o split(Slice(s, p + 1, Len(s)), c)

RECURSIVE join(_, _)
(* c.join(parts) *)
join(c, parts) ==
    IF parts = <<>> THEN <<>>
    ELSE IF Len(parts) = 1 THEN parts[1]
    ELSE parts[1] \o c \o join(c, Tail(parts))

(* str.replace(old, "") of one occurrence-free or prefix pattern: every
   non-overlapping occurrence of old, left to right, is removed *)
RECURSIVE remove_all(_, _)
remove_all(s, old) ==
    IF \A i \in 1..Len(s) : ~IsAt(s, i, old) THEN s
    ELSE LET p == CHOOSE i \in 1..Len(s) :
                      IsAt(s, i, old) /\ \A j \in 1..(i - 1) : ~IsAt(s, j, old)
         IN  Slice(s, 1, p - 1) \o remove_all(Slice(s, p + Len(old), Len(s)), old)

----------------------------------------------------------------------------
(* Marker construction *)

(* A value of dict.get: absent (None) or a string *)
None == [present |-> FALSE, s |-> <<>>]
Some(s) == [present |-> TRUE, s |-> s]

(* the truth value taken as "the key is there" *)
Truthy_present(o) == o.present

(* Python truthiness of an Optional[str]: None and "" are false *)
Truthy(o) == o.present /\ o.s # <<>>

(* A call's result: the exception it raised ("" when it returned) and the string
   it returned *)
Raised(e) == [raised |-> e, s |-> <<>>]
Returned(s) == [raised |-> "", s |-> s]

(* construct_igm slicing one character too many: shi[:SHI_PREFIX_LENGTH + 1] *)
construct_igm_long_prefix(source_metadata, claim_id) ==
    LET shi == source_metadata.shi
        loc_selector == source_metadata.loc_selector
    IN  IF ~Truthy(shi) \/ ~Truthy(loc_selector) THEN Raised("ValueError")
        ELSE Returned(<<ACG_DELIMITERS.CLAIM_START>> \o claim_id
                      \o <<ACG_DELIMITERS.CLAIM_SEP>>
                      \o Slice(shi.s, 1, IF Len(shi.s) < SHI_PREFIX_LENGTH + 1
                                         THEN Len(shi.s) ELSE SHI_PREFIX_LENGTH + 1)
                      \o <<ACG_DELIMITERS.CLAIM_SEP>> \o loc_selector.s
                      \o <<ACG_DELIMITERS.CLAIM_END>>)

(* construct_igm checking the shi alone: if not shi *)
construct_igm_unchecked_selector(source_metadata, claim_id) ==
    LET shi == source_metadata.shi
        loc_selector == source_metadata.loc_selector
    IN  IF ~Truthy(shi) THEN Raised("ValueError")
        ELSE Returned(<<ACG_DELIMITERS.CLAIM_START>> \o claim_id
                      \o <<ACG_DELIMITERS.CLAIM_SEP>>
                      \o Slice(shi.s, 1, IF Len(shi.s) < SHI_PREFIX_LENGTH
                                         THEN Len(shi.s) ELSE SHI_PREFIX_LENGTH)
                      \o <<ACG_DELIMITERS.CLAIM_SEP>> \o loc_selector.s
                      \o <<ACG_DELIMITERS.CLAIM_END>>)

construct_igm(source_metadata, claim_id) ==
    LET shi == source_metadata.shi
        loc_selector == source_metadata.loc_selector
    IN  IF ~Truthy(shi) \/ ~Truthy(loc_selector) THEN Raised("ValueError")
        ELSE LET shi_prefix == Slice(shi.s, 1, IF Len(shi.s) < SHI_PREFIX_LENGTH
                                                THEN Len(shi.s) ELSE SHI_PREFIX_LENGTH)
             IN  Returned(<<ACG_DELIMITERS.CLAIM_START>> \o claim_id
                          \o <<ACG_DELIMITERS.CLAIM_SEP>> \o shi_prefix
                          \o <<ACG_DELIMITERS.CLAIM_SEP>> \o loc_selector.s
                          \o <<ACG_DELIMITERS.CLAIM_END>>)

(* construct_relationship_marker joining the ids with ", " *)
construct_relationship_marker_spaced(relationship_id, rel_type, dependency_claims) ==
    IF relationship_id = <<>> \/ rel_type = <<>> \/ dependency_claims = <<>>
    THEN Raised("ValueError")
    ELSE Returned(<<ACG_DELIMITERS.RELATION_START>> \o relationship_id
                  \o <<ACG_DELIMITERS.RELATION_SEP>> \o rel_type
                  \o <<ACG_DELIMITERS.RELATION_TYPE_SEP>>
                  \o join(<<",", " ">>, dependency_claims)
                  \o <<ACG_DELIMITERS.RELATION_END>>)

construct_relationship_marker(relationship_id, rel_type, dependency_claims) ==
    IF relationship_id = <<>> \/ rel_type = <<>> \/ dependency_claims = <<>>
    THEN Raised("ValueError")
    ELSE LET dep_ids_str == join(<<",">>, dependency_claims)
         IN  Returned(<<ACG_DELIMITERS.RELATION_START>> \o relationship_id
                      \o <<ACG_DELIMITERS.RELATION_SEP>> \o rel_type
                      \o <<ACG_DELIMITERS.RELATION_TYPE_SEP>> \o dep_ids_str
                      \o <<ACG_DELIMITERS.RELATION_END>>)

----------------------------------------------------------------------------
(* The marker grammars of parse_acg_data *)

(* igm_pattern, with an SHI repetition {shi_min,shi_max}, at index i: the set
   of <<e1, e2, e3>>, the last indices of the claim_id, the SHI prefix and the
   selector, of every way the pattern matches at i *)
igm_pattern_of(s, i, shi_min, shi_max) ==
    IF s[i] # ACG_DELIMITERS.CLAIM_START THEN {}
    ELSE
    LET n == Len(s)
        sep == ACG_DELIMITERS.CLAIM_SEP
        w == RunIn(s, i + 1, WordChars)
        E1 == {e \in (i + 1)..w : e + 1 <= n /\ s[e + 1] = sep}
        E2(e1) == LET h == RunIn(s, e1 + 2, HexChars)
                  IN  {e \in (e1 + 1 + shi_min)..(e1 + 1 + shi_max) :
                          e <= h /\ e + 1 <= n /\ s[e + 1] = sep}
        E3(e2) == LET l == RunNotIn(s, e2 + 2, {ACG_DELIMITERS.CLAIM_END})
                  IN  {e \in (e2 + 2)..l :
                          e + 1 <= n /\ s[e + 1] = ACG_DELIMITERS.CLAIM_END}
    IN  UNION {UNION {{<<e1, e2, e3>> : e3 \in E3(e2)} : e2 \in E2(e1)} : e1 \in E1}

(* igm_pattern with the repetition one too low: {7,SHI_PREFIX_LENGTH} *)
igm_pattern_short_shi(s, i) == igm_pattern_of(s, i, SHI_PREFIX_MIN - 1, SHI_PREFIX_LENGTH)

(* igm_pattern as parse_acg_data builds it: [A-Fa-f0-9]{8,SHI_PREFIX_LENGTH} *)
igm_pattern(s, i) == igm_pattern_of(s, i, SHI_PREFIX_MIN, SHI_PREFIX_LENGTH)

(* the match the backtracking matcher returns at i: \w+ and the SHI repetition
   are greedy (longest first), the selector is non-greedy (shortest first) *)
igm_match(s, i) ==
    LET M == igm_pattern(s, i)
    IN  CHOOSE m \in M : \A o \in M :
            \/ m[1] > o[1]
            \/ m[1] = o[1] /\ m[2] > o[2]
            \/ m[1] = o[1] /\ m[2] = o[2] /\ m[3] <= o[3]

(* rm_pattern at index i: the last indices of the relationship_id, the type and
   the dependency list of every way the pattern matches at i *)
rm_pattern(s, i) ==
    IF s[i] # ACG_DELIMITERS.RELATION_START THEN {}
    ELSE
    LET n == Len(s)
        w == RunIn(s, i + 1, WordChars)
        E1 == {e \in (i + 1)..w : e + 1 <= n /\ s[e + 1] = ACG_DELIMITERS.RELATION_SEP}
        E2(e1) == LET l == RunNotIn(s, e1 + 2, {":", ACG_DELIMITERS.RELATION_END})
                  IN  {e \in (e1 + 2)..l :
                          e + 1 <= n /\ s[e + 1] = ACG_DELIMITERS.RELATION_TYPE_SEP}
        E3(e2) == LET l == RunNotIn(s, e2 + 2, {ACG_DELIMITERS.RELATION_END})
                  IN  {e \in (e2 + 2)..l :
                          e + 1 <= n /\ s[e + 1] = ACG_DELIMITERS.RELATION_END}
    IN  UNION {UNION {{<<e1, e2, e3>> : e3 \in E3(e2)} : e2 \in E2(e1)} : e1 \in E1}

(* \w+ is greedy, the type and the dependency list are non-greedy *)
rm_match(s, i) ==
    LET M == rm_pattern(s, i)
    IN  CHOOSE m \in M : \A o \in M :
            \/ m[1] > o[1]
            \/ m[1] = o[1] /\ m[2] < o[2]
            \/ m[1] = o[1] /\ m[2] = o[2] /\ m[3] <= o[3]

RECURSIVE igm_finditer(_, _)
(* re.finditer(igm_pattern, s) from index pos on: the matches, leftmost first
   and not overlapping, each as [start, e1, e2, e3] (the closing delimiter is at
   e3 + 1) *)
igm_finditer(s, pos) ==
    IF \A i \in pos..Len(s) : igm_pattern(s, i) = {} THEN <<>>
    ELSE LET i == CHOOSE i \in pos..Len(s) :
                      igm_pattern(s, i) # {} /\ \A j \in pos..(i - 1) : igm_pattern(s, j) = {}
             m == igm_match(s, i)
         IN  <<[start |-> i, e1 |-> m[1], e2 |-> m[2], e3 |-> m[3]]>>
             \o igm_finditer(s, m[3] + 2)

RECURSIVE rm_finditer(_, _)
(* re.finditer(rm_pattern, s) from index pos on *)
rm_finditer(s, pos) ==
    IF \A i \in pos..Len(s) : rm_pattern(s, i) = {} THEN <<>>
    ELSE LET i == CHOOSE i \in pos..Len(s) :
                      rm_pattern(s, i) # {} /\ \A j \in pos..(i - 1) : rm_pattern(s, j) = {}
             m == rm_match(s, i)
         IN  <<[start |-> i, e1 |-> m[1], e2 |-> m[2], e3 |-> m[3]]>>
             \o rm_finditer(s, m[3] + 2)

(* parse_igms taking every claim_context from the start of the document *)
parse_igms_from_start(original_text) ==
    LET all_igm_matches == igm_finditer(original_text, 1)
    IN  [i \in 1..Len(all_igm_matches) |->
            LET match == all_igm_matches[i]
            IN  [claim_id |-> Slice(original_text, match.start + 1, match.e1),
                 shi |-> Slice(original_text, match.e1 + 2, match.e2),
                 loc |-> Slice(original_text, match.e2 + 2, match.e3),
                 claim_context |-> strip(Slice(original_text, 1, match.start - 1))]]

(* the igms list of parse_acg_data: each match with its claim_context *)
parse_igms(original_text) ==
    LET all_igm_matches == igm_finditer(original_text, 1)
    IN  [i \in 1..Len(all_igm_matches) |->
            LET match == all_igm_matches[i]
                prev_match_end == IF i > 1 THEN all_igm_matches[i - 1].e3 + 1 ELSE 0
            IN  [claim_id |-> Slice(original_text, match.start + 1, match.e1),
                 shi |-> Slice(original_text, match.e1 + 2, match.e2),
                 loc |-> Slice(original_text, match.e2 + 2, match.e3),
                 claim_context |->
                     strip(Slice(original_text, prev_match_end + 1, match.start - 1))]]

(* the rms list of parse_acg_data *)
parse_rms(original_text) ==
    LET ms == rm_finditer(original_text, 1)
    IN  [i \in 1..Len(ms) |->
            [relationship_id |-> Slice(original_text, ms[i].start + 1, ms[i].e1),
             type |-> Slice(original_text, ms[i].e1 + 2, ms[i].e2),
             dep_claims |-> split(Slice(original_text, ms[i].e2 + 2, ms[i].e3), ",")]]

----------------------------------------------------------------------------
(* Python values that cross json.dumps and json.loads.  Every value is a record
   of one shape: t is its type, s the characters of a str, an ObjectId or an
   int, k the keys of a dict in insertion order and l the items of a list or
   the values of a dict (l[i] belongs to k[i]). *)

Str(s) == [t |-> "str", s |-> s, k |-> <<>>, l |-> <<>>]
ObjectId(s) == [t |-> "oid", s |-> s, k |-> <<>>, l |-> <<>>]
PyInt(s) == [t |-> "int", s |-> s, k |-> <<>>, l |-> <<>>]
Bool(s) == [t |-> "bool", s |-> s, k |-> <<>>, l |-> <<>>]
PyNone == [t |-> "none", s |-> <<>>, k |-> <<>>, l |-> <<>>]
List(l) == [t |-> "list", s |-> <<>>, k |-> <<>>, l |-> l]
Dict(k, l) == [t |-> "dict", s |-> <<>>, k |-> k, l |-> l]

(* d[key] = val on a dict: a key already there keeps its place *)
DictSet(d, key, val) ==
    IF \E i \in 1..Len(d.k) : d.k[i] = key
    THEN LET i == CHOOSE i \in 1..Len(d.k) : d.k[i] = key
         IN  Dict(d.k, [d.l EXCEPT ![i] = val])
    ELSE Dict(Append(d.k, key), Append(d.l, val))

HasKey(d, key) == \E i \in 1..Len(d.k) : d.k[i] = key

(* d[key] for a key of d *)
DictGet(d, key) == d.l[CHOOSE i \in 1..Len(d.k) : d.k[i] = key]

RECURSIVE PyEq(_, _)
(* Python's == on these values: dicts compare without regard to key order *)
PyEq(a, b) ==
    /\ a.t = b.t
    /\ a.s = b.s
    /\ Len(a.l) = Len(b.l)
    /\ IF a.t = "dict"
       THEN /\ Len(a.k) = Len(b.k)
            /\ \A i \in 1..Len(a.k) :
                   /\ HasKey(b, a.k[i])
                   /\ PyEq(a.l[i], DictGet(b, a.k[i]))
       ELSE \A i \in 1..Len(a.l) : PyEq(a.l[i], b.l[i])

----------------------------------------------------------------------------
(* json.dumps(obj, indent=2[, cls=CustomJsonEncoder]) *)

Quote == "\""
Backslash == "\\"

RECURSIVE escape(_)
(* the body of a JSON string: py_encode_basestring_ascii on ASCII text *)
escape(s) ==
    IF s = <<>> THEN <<>>
    ELSE LET c == Head(s)
             e == CASE c = Quote -> <<Backslash, Quote>>
                    [] c = Backslash -> <<Backslash, Backslash>>
                    [] c = "\n" -> <<Backslash, "n">>
                    [] c = "\r" -> <<Backslash, "r">>
                    [] c = "\t" -> <<Backslash, "t">>
                    [] OTHER -> <<c>>
         IN  e \o escape(Tail(s))

encode_str(s) == <<Quote>> \o escape(s) \o <<Quote>>

Indent(level) == [i \in 1..(2 * level) |-> " "]

(* the types json.dumps accepts as a dict key *)
KeyTypes == {"str", "int", "bool", "none"}

RECURSIVE encodable(_, _)
(* whether the encoder accepts obj; an ObjectId only through
   CustomJsonEncoder.default *)
encodable(obj, custom) ==
    CASE obj.t = "oid" -> custom
      [] obj.t = "list" -> \A i \in 1..Len(obj.l) : encodable(obj.l[i], custom)
      [] obj.t = "dict" ->
            /\ \A i \in 1..Len(obj.k) : obj.k[i].t \in KeyTypes
            /\ \A i \in 1..Len(obj.l) : encodable(obj.l[i], custom)
      [] OTHER -> TRUE

(* CustomJsonEncoder.default: an ObjectId becomes its string *)
CustomJsonEncoder_default(obj) == Str(obj.s)

RECURSIVE encode(_, _)
RECURSIVE encode_items(_, _, _)
RECURSIVE encode_members(_, _, _)
(* the text of an encodable obj at an indentation level *)
encode(obj, level) ==
    CASE obj.t = "str" -> encode_str(obj.s)
      [] obj.t = "oid" -> encode(CustomJsonEncoder_default(obj), level)
      [] obj.t = "int" -> obj.s
      [] obj.t = "bool" -> obj.s
      [] obj.t = "none" -> <<"n", "u", "l", "l">>
      [] obj.t = "list" ->
            IF obj.l = <<>> THEN <<"[", "]">>
            ELSE <<"[", "\n">> \o encode_items(obj.l, 1, level + 1)
                 \o <<"\n">> \o Indent(level) \o <<"]">>
      [] obj.t = "dict" ->
            IF obj.k = <<>> THEN <<"{", "}">>
            ELSE <<"{", "\n">> \o encode_members(obj, 1, level + 1)
                 \o <<"\n">> \o Indent(level) \o <<"}">>

encode_items(l, i, level) ==
    Indent(level) \o encode(l[i], level)
    \o (IF i = Len(l) THEN <<>> ELSE <<",", "\n">> \o encode_items(l, i + 1, level))

encode_members(d, i, level) ==
    Indent(level)
    \o encode_str(IF d.k[i].t = "none" THEN <<"n", "u", "l", "l">> ELSE d.k[i].s)
    \o <<":", " ">> \o encode(d.l[i], level)
    \o (IF i = Len(d.k) THEN <<>> ELSE <<",", "\n">> \o encode_members(d, i + 1, level))

json_dumps(obj, custom) ==
    IF encodable(obj, custom) THEN Returned(encode(obj, 0)) ELSE Raised("TypeError")

----------------------------------------------------------------------------
(* json.loads: the scanner of json.decoder on the lexical forms the documents
   here carry (strings with the two-character escapes, integers, null, true,
   false, arrays and objects) *)

(* a scan that failed (JSONDecodeError), and one that produced v and stopped
   before index pos *)
ScanFail == [ok |-> FALSE, v |-> PyNone, pos |-> 0]
ScanOk(v, pos) == [ok |-> TRUE, v |-> v, pos |-> pos]

(* the index of the first non-whitespace character from i on *)
SkipWs(s, i) == RunIn(s, i, Whitespace) + 1

(* the character an escape \c stands for *)
Unescape(c) ==
    CASE c = "n" -> "\n"
      [] c = "r" -> "\r"
      [] c = "t" -> "\t"
      [] OTHER -> c

RECURSIVE scanstring(_, _, _)
(* py_scanstring (strict) from index i, after the opening quote, with the
   characters read so far *)
scanstring(s, i, acc) ==
    IF i > Len(s) THEN ScanFail
    ELSE IF s[i] = Quote THEN ScanOk(Str(acc), i + 1)
    ELSE IF s[i] \in {"\n", "\r", "\t"} THEN ScanFail
    ELSE IF s[i] = Backslash
         THEN IF i + 1 <= Len(s) /\ s[i + 1] \in {Quote, Backslash, "/", "n", "r", "t"}
              THEN scanstring(s, i + 2, Append(acc, Unescape(s[i + 1])))
              ELSE ScanFail
    ELSE scanstring(s, i + 1, Append(acc, s[i]))

(* NUMBER_RE on integers (an optional minus, then 0 or a digit run that does
   not start with 0) at i: the index of its last character, or 0 *)
scan_int(s, i) ==
    LET d == IF s[i] = "-" THEN i + 1 ELSE i
    IN  IF d > Len(s) \/ s[d] \notin Digits THEN 0
        ELSE IF s[d] = "0" THEN d
        ELSE RunIn(s, d, Digits)

RECURSIVE scan_once(_, _)
RECURSIVE JSONArray(_, _, _)
RECURSIVE JSONObject(_, _, _)
(* scanner.py_make_scanner._scan_once at index i *)
scan_once(s, i) ==
    IF i > Len(s) THEN ScanFail
    ELSE
    CASE s[i] = Quote -> scanstring(s, i + 1, <<>>)
      [] s[i] = "{" ->
            LET j == SkipWs(s, i + 1)
            IN  IF j <= Len(s) /\ s[j] = "}" THEN ScanOk(Dict(<<>>, <<>>), j + 1)
                ELSE JSONObject(s, j, Dict(<<>>, <<>>))
      [] s[i] = "[" ->
            LET j == SkipWs(s, i + 1)
            IN  IF j <= Len(s) /\ s[j] = "]" THEN ScanOk(List(<<>>), j + 1)
                ELSE JSONArray(s, j, <<>>)
      [] IsAt(s, i, <<"n", "u", "l", "l">>) -> ScanOk(PyNone, i + 4)
      [] IsAt(s, i, <<"t", "r", "u", "e">>) -> ScanOk(Bool(<<"t", "r", "u", "e">>), i + 4)
      [] IsAt(s, i, <<"f", "a", "l", "s", "e">>) ->
            ScanOk(Bool(<<"f", "a", "l", "s", "e">>), i + 5)
      [] OTHER ->
            LET e == scan_int(s, i)
            IN  IF e = 0 THEN ScanFail ELSE ScanOk(PyInt(Slice(s, i, e)), e + 1)

(* JSONArray: the next item starts at i; acc holds the items read *)
JSONArray(s, i, acc) ==
    LET item == scan_once(s, i)
    IN  IF ~item.ok THEN ScanFail
        ELSE LET j == SkipWs(s, item.pos)
                 values == Append(acc, item.v)
             IN  IF j > Len(s) THEN ScanFail
                 ELSE IF s[j] = "]" THEN ScanOk(List(values), j + 1)
                 ELSE IF s[j] = "," THEN JSONArray(s, SkipWs(s, j + 1), values)
                 ELSE ScanFail

(* JSONObject: the next key's opening quote is expected at i; acc holds the
   pairs read (a repeated key keeps its last value) *)
JSONObject(s, i, acc) ==
    IF i > Len(s) \/ s[i] # Quote THEN ScanFail
    ELSE LET key == scanstring(s, i + 1, <<>>)
         IN  IF ~key.ok THEN ScanFail
             ELSE LET c == SkipWs(s, key.pos)
                  IN  IF c > Len(s) \/ s[c] # ":" THEN ScanFail
                      ELSE LET value == scan_once(s, SkipWs(s, c + 1))
                           IN  IF ~value.ok THEN ScanFail
                               ELSE LET j == SkipWs(s, value.pos)
                                        pairs == DictSet(acc, key.v, value.v)
                                    IN  IF j > Len(s) THEN ScanFail
                                        ELSE IF s[j] = "}" THEN ScanOk(pairs, j + 1)
                                        ELSE IF s[j] = ","
                                             THEN JSONObject(s, SkipWs(s, j + 1), pairs)
                                        ELSE ScanFail

(* json.loads stopping at the end of the first value: JSONDecoder.raw_decode *)
json_loads_raw_decode(s) == scan_once(s, SkipWs(s, 1))

(* json.loads(s): JSONDecoder.decode; ok is FALSE for a JSONDecodeError (no
   value, or extra data after it) *)
json_loads(s) ==
    LET r == scan_once(s, SkipWs(s, 1))
    IN  IF r.ok /\ SkipWs(s, r.pos) = Len(s) + 1 THEN r ELSE ScanFail

----------------------------------------------------------------------------
(* The registry block *)

ACG_START_LINE == <<"-", "-", "-", " ", "A", "C", "G", "_", "S", "T", "A", "R", "T", " ", "-", "-", "-">>
ACG_END_LINE == <<"-", "-", "-", " ", "A", "C", "G", "_", "E", "N", "D", " ", "-", "-", "-">>

(* obj's answer to `key in obj` for a str key: b, or the exception raised *)
contains(obj, key) ==
    CASE obj.t = "dict" -> [raised |-> "", b |-> HasKey(obj, Str(key))]
      [] obj.t = "list" -> [raised |-> "", b |-> \E i \in 1..Len(obj.l) : obj.l[i] = Str(key)]
      [] obj.t = "str" -> [raised |-> "", b |-> \E i \in 1..Len(obj.s) : IsAt(obj.s, i, key)]
      [] OTHER -> [raised |-> "TypeError", b |-> FALSE]

(* obj[key] for a str key: the value, or the exception raised *)
subscript(obj, key) ==
    CASE obj.t = "dict" ->
            IF HasKey(obj, Str(key)) THEN [raised |-> "", v |-> DictGet(obj, Str(key))]
            ELSE [raised |-> "KeyError", v |-> PyNone]
      [] OTHER -> [raised |-> "TypeError", v |-> PyNone]

(* whether a value can be a dict key *)
hashable(v) == v.t \notin {"list", "dict"}

RECURSIVE index_by_first(_, _, _, _)
(* an index that keeps the first item of each id *)
index_by_first(items, id_key, i, acc) ==
    IF i > Len(items) THEN [raised |-> "", v |-> acc]
    ELSE LET id == subscript(items[i], id_key)
         IN  IF id.raised # "" THEN [raised |-> id.raised, v |-> PyNone]
             ELSE IF ~hashable(id.v) THEN [raised |-> "TypeError", v |-> PyNone]
             ELSE index_by_first(items, id_key, i + 1,
                                 IF HasKey(acc, id.v) THEN acc
                                 ELSE DictSet(acc, id.v, items[i]))

RECURSIVE index_by(_, _, _, _)
(* {item[id_key]: item for item in items}, from item i on, into acc *)
index_by(items, id_key, i, acc) ==
    IF i > Len(items) THEN [raised |-> "", v |-> acc]
    ELSE LET id == subscript(items[i], id_key)
         IN  IF id.raised # "" THEN [raised |-> id.raised, v |-> PyNone]
             ELSE IF ~hashable(id.v) THEN [raised |-> "TypeError", v |-> PyNone]
             ELSE index_by(items, id_key, i + 1, DictSet(acc, id.v, items[i]))

(* one of the two statements
       if 'SSR' in acg_data and isinstance(acg_data['SSR'], list):
           ssr_dict = {item['SHI']: item for item in acg_data['SSR']}
   v is the map, or None when the condition is false *)
registry_map(acg_data, list_key, id_key) ==
    LET c == contains(acg_data, list_key)
    IN  IF c.raised # "" THEN [raised |-> c.raised, v |-> PyNone]
        ELSE IF ~c.b THEN [raised |-> "", v |-> PyNone]
        ELSE LET items == subscript(acg_data, list_key)
             IN  IF items.raised # "" THEN [raised |-> items.raised, v |-> PyNone]
                 ELSE IF items.v.t # "list" THEN [raised |-> "", v |-> PyNone]
                 ELSE index_by(items.v.l, id_key, 1, Dict(<<>>, <<>>))

(* a search whose group is greedy: the text up to the last end line *)
acg_search_greedy(s) ==
    LET open == ACG_START_LINE \o <<"\n">>
        close == <<"\n">> \o ACG_END_LINE
        closes(i, j) == j >= i + Len(open) /\ IsAt(s, j, close)
        matches(i) == IsAt(s, i, open) /\ \E j \in i..Len(s) : closes(i, j)
    IN  IF \A i \in 1..Len(s) : ~matches(i) THEN [found |-> FALSE, group |-> <<>>]
        ELSE LET i == CHOOSE i \in 1..Len(s) :
                          matches(i) /\ \A h \in 1..(i - 1) : ~matches(h)
                 j == CHOOSE j \in i..Len(s) :
                          closes(i, j) /\ \A h \in (j + 1)..Len(s) : ~closes(i, h)
             IN  [found |-> TRUE, group |-> Slice(s, i + Len(open), j - 1)]

(* re.search(r"--- ACG_START ---\n(.*?)\n--- ACG_END ---", s, re.DOTALL): the
   leftmost start line that some end line closes, and group(1), the text up to
   the nearest such end line *)
acg_search(s) ==
    LET open == ACG_START_LINE \o <<"\n">>
        close == <<"\n">> \o ACG_END_LINE
        closes(i, j) == j >= i + Len(open) /\ IsAt(s, j, close)
        matches(i) == IsAt(s, i, open) /\ \E j \in i..Len(s) : closes(i, j)
    IN  IF \A i \in 1..Len(s) : ~matches(i) THEN [found |-> FALSE, group |-> <<>>]
        ELSE LET i == CHOOSE i \in 1..Len(s) :
                          matches(i) /\ \A h \in 1..(i - 1) : ~matches(h)
                 j == CHOOSE j \in i..Len(s) :
                          closes(i, j) /\ \A h \in i..(j - 1) : ~closes(i, h)
             IN  [found |-> TRUE, group |-> Slice(s, i + Len(open), j - 1)]

(* What parse_acg_data returns, or the exception that leaves it *)
ParseResult(raised, igms, rms, ssr_dict, var_dict) ==
    [raised |-> raised, igms |-> igms, rms |-> rms, ssr_dict |-> ssr_dict,
     var_dict |-> var_dict]

ParseRaised(e) == ParseResult(e, <<>>, <<>>, PyNone, PyNone)

K_SSR == <<"S", "S", "R">>
K_VAR == <<"V", "A", "R">>
K_SHI == <<"S", "H", "I">>
K_RELATION_ID == <<"R", "E", "L", "A", "T", "I", "O", "N", "_", "I", "D">>

(* parse_acg_data without `if acg_match:`: acg_match.group(1) on None *)
parse_acg_data_unguarded(original_text) ==
    LET igms == parse_igms(original_text)
        rms == parse_rms(original_text)
        acg_match == acg_search(original_text)
    IN  IF ~acg_match.found THEN ParseRaised("AttributeError")
        ELSE LET acg_data == json_loads(acg_match.group)
             IN  IF ~acg_data.ok THEN ParseResult("", igms, rms, PyNone, PyNone)
                 ELSE LET ssr_dict == registry_map(acg_data.v, K_SSR, K_SHI)
                          var_dict == registry_map(acg_data.v, K_VAR, K_RELATION_ID)
                      IN  IF ssr_dict.raised # "" THEN ParseRaised(ssr_dict.raised)
                          ELSE IF var_dict.raised # "" THEN ParseRaised(var_dict.raised)
                          ELSE ParseResult("", igms, rms, ssr_dict.v, var_dict.v)

parse_acg_data(original_text) ==
    LET igms == parse_igms(original_text)
        rms == parse_rms(original_text)
        acg_match == acg_search(original_text)
    IN  IF ~acg_match.found THEN ParseResult("", igms, rms, PyNone, PyNone)
        ELSE LET acg_data == json_loads(acg_match.group)
             IN  IF ~acg_data.ok
                 THEN (* except json.JSONDecodeError *)
                      ParseResult("", igms, rms, PyNone, PyNone)
                 ELSE LET ssr_dict == registry_map(acg_data.v, K_SSR, K_SHI)
                          var_dict == registry_map(acg_data.v, K_VAR, K_RELATION_ID)
                      IN  IF ssr_dict.raised # "" THEN ParseRaised(ssr_dict.raised)
                          ELSE IF var_dict.raised # "" THEN ParseRaised(var_dict.raised)
                          ELSE ParseResult("", igms, rms, ssr_dict.v, var_dict.v)

----------------------------------------------------------------------------
(* The generator and the assembler *)

K_Type == <<"T", "y", "p", "e">>
K_Canonical_URI == <<"C", "a", "n", "o", "n", "i", "c", "a", "l", "_", "U", "R", "I">>
K_Location_Type == <<"L", "o", "c", "a", "t", "i", "o", "n", "_", "T", "y", "p", "e">>
K_Loc_Selector == <<"L", "o", "c", "_", "S", "e", "l", "e", "c", "t", "o", "r">>
K_TYPE == <<"T", "Y", "P", "E">>
K_DEP_CLAIMS == <<"D", "E", "P", "_", "C", "L", "A", "I", "M", "S">>
K_SYNTHESIS_PROSE == <<"S", "Y", "N", "T", "H", "E", "S", "I", "S", "_", "P", "R", "O", "S", "E">>
K_LOGIC_MODEL == <<"L", "O", "G", "I", "C", "_", "M", "O", "D", "E", "L">>
K_AUDIT_STATUS == <<"A", "U", "D", "I", "T", "_", "S", "T", "A", "T", "U", "S">>
K_TIMESTAMP == <<"T", "I", "M", "E", "S", "T", "A", "M", "P">>
WEB_ARTICLE == <<"W", "e", "b", " ", "A", "r", "t", "i", "c", "l", "e">>
CSS_SELECTOR == <<"C", "S", "S", "_", "S", "e", "l", "e", "c", "t", "o", "r">>
PENDING == <<"P", "E", "N", "D", "I", "N", "G">>
CSS_PREFIX == <<"c", "s", "s", "=">>
DEFAULT_CLAIM_ID == <<"C", "1">>
DEFAULT_RELATION_ID == <<"R", "1">>

(* dict.get(key, default) on an optional field *)
GetOr(o, default) == IF o.present THEN o.s ELSE default

(* What generate_grounded_text returns (the text and the two drafts), or the
   exception that leaves it *)
GenResult(raised, s, ssr_entry, var_entry) ==
    [raised |-> raised, s |-> s, ssr_entry |-> ssr_entry, var_entry |-> var_entry]

GenRaised(e) == GenResult(e, <<>>, PyNone, PyNone)

StrList(l) == List([i \in 1..Len(l) |-> Str(l[i])])

(* generate_grounded_text writing the registry block without its end line *)
generate_grounded_text_unclosed_block(claim, source_metadata, relationship_metadata) ==
    IF ~source_metadata.shi.present \/ ~source_metadata.loc_selector.present
    THEN GenRaised("KeyError")
    ELSE
    LET shi == source_metadata.shi.s
        loc == remove_all(source_metadata.loc_selector.s, CSS_PREFIX)
        claim_id == DEFAULT_CLAIM_ID
        igm == construct_igm(source_metadata, claim_id)
    IN  IF igm.raised # "" THEN GenRaised(igm.raised)
        ELSE IF ~source_metadata.source_uri.present THEN GenRaised("KeyError")
        ELSE
        LET ssr_entry ==
                Dict(<<Str(K_SHI), Str(K_Type), Str(K_Canonical_URI),
                       Str(K_Location_Type), Str(K_Loc_Selector)>>,
                     <<Str(shi), Str(WEB_ARTICLE), Str(source_metadata.source_uri.s),
                       Str(CSS_SELECTOR), Str(loc)>>)
            rel == relationship_metadata
            relationship_id == GetOr(rel.RELATION_ID, DEFAULT_RELATION_ID)
            rel_type == rel.TYPE
            dep_claims == IF rel.DEP_CLAIMS.present THEN rel.DEP_CLAIMS.l ELSE <<claim_id>>
            rm == IF rel.given
                  THEN construct_relationship_marker(relationship_id, rel_type.s, dep_claims)
                  ELSE Returned(<<>>)
            var_entry ==
                IF rel.given
                THEN Dict(<<Str(K_RELATION_ID), Str(K_TYPE), Str(K_DEP_CLAIMS),
                            Str(K_SYNTHESIS_PROSE), Str(K_LOGIC_MODEL),
                            Str(K_AUDIT_STATUS), Str(K_TIMESTAMP)>>,
                          <<Str(relationship_id), Str(rel_type.s), StrList(dep_claims),
                            Str(GetOr(rel.SYNTHESIS_PROSE, claim)),
                            IF rel.LOGIC_MODEL.present THEN Str(rel.LOGIC_MODEL.s)
                            ELSE PyNone,
                            Str(PENDING), Str(GetOr(rel.TIMESTAMP, <<>>))>>)
                ELSE PyNone
            block == json_dumps(Dict(<<Str(K_SSR), Str(K_VAR)>>,
                                     <<List(<<ssr_entry>>),
                                       IF rel.given THEN List(<<var_entry>>)
                                       ELSE List(<<>>)>>), FALSE)
            ssr_var_block == <<"\n">> \o ACG_START_LINE \o <<"\n">> \o block.s
        IN  IF rel.given /\ ~Truthy(rel_type) THEN GenRaised("ValueError")
            ELSE IF rm.raised # "" THEN GenRaised(rm.raised)
            ELSE IF rel.given /\ ~Truthy(rel.LOGIC_MODEL) THEN GenRaised("ValueError")
            ELSE IF block.raised # "" THEN GenRaised(block.raised)
            ELSE GenResult("", claim \o <<" ">> \o igm.s \o rm.s \o <<".">> \o ssr_var_block,
                           ssr_entry, var_entry)

generate_grounded_text(claim, source_metadata, relationship_metadata) ==
    IF ~source_metadata.shi.present \/ ~source_metadata.loc_selector.present
    THEN GenRaised("KeyError")
    ELSE
    LET shi == source_metadata.shi.s
        loc == remove_all(source_metadata.loc_selector.s, CSS_PREFIX)
        claim_id == DEFAULT_CLAIM_ID
        igm == construct_igm(source_metadata, claim_id)
    IN  IF igm.raised # "" THEN GenRaised(igm.raised)
        ELSE IF ~source_metadata.source_uri.present THEN GenRaised("KeyError")
        ELSE
        LET ssr_entry ==
                Dict(<<Str(K_SHI), Str(K_Type), Str(K_Canonical_URI),
                       Str(K_Location_Type), Str(K_Loc_Selector)>>,
                     <<Str(shi), Str(WEB_ARTICLE), Str(source_metadata.source_uri.s),
                       Str(CSS_SELECTOR), Str(loc)>>)
            rel == relationship_metadata
            relationship_id == GetOr(rel.RELATION_ID, DEFAULT_RELATION_ID)
            rel_type == rel.TYPE
            dep_claims == IF rel.DEP_CLAIMS.present THEN rel.DEP_CLAIMS.l ELSE <<claim_id>>
            rm == IF rel.given
                  THEN construct_relationship_marker(relationship_id, rel_type.s, dep_claims)
                  ELSE Returned(<<>>)
            var_entry ==
                IF rel.given
                THEN Dict(<<Str(K_RELATION_ID), Str(K_TYPE), Str(K_DEP_CLAIMS),
                            Str(K_SYNTHESIS_PROSE), Str(K_LOGIC_MODEL),
                            Str(K_AUDIT_STATUS), Str(K_TIMESTAMP)>>,
                          <<Str(relationship_id), Str(rel_type.s), StrList(dep_claims),
                            Str(GetOr(rel.SYNTHESIS_PROSE, claim)),
                            IF rel.LOGIC_MODEL.present THEN Str(rel.LOGIC_MODEL.s)
                            ELSE PyNone,
                            Str(PENDING), Str(GetOr(rel.TIMESTAMP, <<>>))>>)
                ELSE PyNone
            block == json_dumps(Dict(<<Str(K_SSR), Str(K_VAR)>>,
                                     <<List(<<ssr_entry>>),
                                       IF rel.given THEN List(<<var_entry>>)
                                       ELSE List(<<>>)>>), FALSE)
            ssr_var_block == <<"\n">> \o ACG_START_LINE \o <<"\n">> \o block.s
                             \o <<"\n">> \o ACG_END_LINE
        IN  IF rel.given /\ ~Truthy(rel_type) THEN GenRaised("ValueError")
            ELSE IF rm.raised # "" THEN GenRaised(rm.raised)
            ELSE IF rel.given /\ ~Truthy(rel.LOGIC_MODEL) THEN GenRaised("ValueError")
            ELSE IF block.raised # "" THEN GenRaised(block.raised)
            ELSE GenResult("", claim \o <<" ">> \o igm.s \o rm.s \o <<".">> \o ssr_var_block,
                           ssr_entry, var_entry)

(* the body of assemble_final_output once ssr_list and var_list are taken *)
assemble_lists(generated_text, ssr_list, var_list) ==
    LET ACG_MARKER_START == <<"\n">> \o ACG_START_LINE \o <<"\n">>
        ACG_MARKER_END == <<"\n">> \o ACG_END_LINE \o <<"\n">>
        acg_data == Dict(<<Str(K_SSR), Str(K_VAR)>>, <<ssr_list, var_list>>)
        acg_json == json_dumps(acg_data, TRUE)
    IN  IF acg_json.raised # "" THEN Raised(acg_json.raised)
        ELSE Returned(strip(generated_text) \o <<"\n">> \o ACG_MARKER_START
                      \o acg_json.s \o <<"\n">> \o ACG_MARKER_END)

(* assemble_final_output listing the keys of the maps: list(verified_ssr) *)
assemble_final_output_keys(generated_text, verified_ssr, verified_var) ==
    assemble_lists(generated_text, List(verified_ssr.k), List(verified_var.k))

(* ssr_list = list(verified_ssr.values()); var_list = list(verified_var.values()) *)
assemble_final_output(generated_text, verified_ssr, verified_var) ==
    assemble_lists(generated_text, List(verified_ssr.l), List(verified_var.l))

----------------------------------------------------------------------------
(* The mutable objects of a call: those it writes, those it is passed (the
   dicts and lists among its arguments, by the expression that names them) and
   those its returned value is made of.  Strings are immutable and are left
   out. *)

Effects(writes, arguments, returned) ==
    [writes |-> writes, arguments |-> arguments, returned |-> returned]

(* construct_igm reads source_metadata and returns a string *)
construct_igm_effects == Effects({}, {"source_metadata"}, {})

(* construct_relationship_marker joins dependency_claims and returns a string *)
construct_relationship_marker_effects == Effects({}, {"dependency_claims"}, {})

(* generate_grounded_text returns two new dicts; the DEP_CLAIMS value of the
   relation draft is dep_claims, which is the list of the metadata when the
   metadata holds one, and the new list [claim_id] otherwise *)
generate_grounded_text_effects(relationship_metadata, raised) ==
    LET rel == relationship_metadata
        dep_claims == IF rel.DEP_CLAIMS.present THEN "relationship_metadata['DEP_CLAIMS']"
                      ELSE "[claim_id]"
    IN  Effects({},
                {"source_metadata"}
                \cup (IF rel.supplied THEN {"relationship_metadata"} ELSE {})
                \cup (IF rel.DEP_CLAIMS.present THEN {"relationship_metadata['DEP_CLAIMS']"}
                      ELSE {}),
                IF raised # "" THEN {}
                ELSE {"ssr_entry"}
                     \cup (IF rel.given THEN {"var_entry", dep_claims} ELSE {}))

(* parse_acg_data builds its lists and maps from the text *)
parse_acg_data_effects(raised) ==
    Effects({}, {}, IF raised # "" THEN {} ELSE {"igms", "rms", "ssr_dict", "var_dict"})

(* assemble_final_output lists the entries of the two maps, serializes them
   and returns a string *)
assemble_final_output_effects ==
    Effects({}, {"verified_ssr", "verified_var", "verified_ssr.values()",
                 "verified_var.values()"}, {})

(* generate_shi takes and returns strings *)
generate_shi_effects == Effects({}, {}, {})

----------------------------------------------------------------------------
(* The identity component: generate_shi of src/src/utils.py *)

UpperCase == <<"A", "B", "C", "D", "E", "F", "G", "H", "I", "J", "K", "L", "M",
               "N", "O", "P", "Q", "R", "S", "T", "U", "V", "W", "X", "Y", "Z">>

LowerCase == <<"a", "b", "c", "d", "e", "f", "g", "h", "i", "j", "k", "l", "m",
               "n", "o", "p", "q", "r", "s", "t", "u", "v", "w", "x", "y", "z">>

(* str.lower() *)
lower(s) ==
    [i \in 1..Len(s) |->
        IF \E k \in 1..Len(UpperCase) : UpperCase[k] = s[i]
        THEN LowerCase[CHOOSE k \in 1..Len(UpperCase) : UpperCase[k] = s[i]]
        ELSE s[i]]

(* hashlib.new(name, data).hexdigest(): the digest is kept as the algorithm and
   the message it is computed from, so that two digests are equal exactly when
   their messages are (a digest without collisions) *)
hexdigest(name, data) == [algorithm |-> name, message |-> data]

(* the string generate_shi feeds to the digest *)
generate_shi_data(canonical_uri, version_tag) ==
    lower(strip(canonical_uri)) \o <<"|">> \o lower(strip(version_tag))

generate_shi(canonical_uri, version_tag) ==
    hexdigest(SHI_ALGORITHM, generate_shi_data(canonical_uri, version_tag))

----------------------------------------------------------------------------
(* The indexer: the chunking loop of index_url of src/src/indexer.py *)

DigitChars == <<"0", "1", "2", "3", "4", "5", "6", "7", "8", "9">>

RECURSIVE str_int(_)
(* what an f-string writes for an int n >= 0 *)
str_int(n) ==
    IF n < 10 THEN <<DigitChars[n + 1]>>
    ELSE str_int(n \div 10) \o <<DigitChars[(n % 10) + 1]>>

(* the literal part of f"chunk_{len(chunks_to_store) + 1}" *)
CHUNK_ID_PREFIX == <<"c", "h", "u", "n", "k", "_">>

(* the dict appended to chunks_to_store *)
Chunk(url, current_chunk_sentences, chunks_to_store_len, current_chunk_loc_selector) ==
    [content |-> join(<<" ">>, current_chunk_sentences),
     chunk_id |-> CHUNK_ID_PREFIX \o str_int(chunks_to_store_len + 1),
     loc_selector |-> current_chunk_loc_selector,
     metadata |-> [uri |-> url, loc |-> current_chunk_loc_selector]]

RECURSIVE chunking_loop(_, _, _, _, _, _, _)
(* the for loop from sentence i on: the three locals after it *)
chunking_loop(url, all_sentences_data, sentences_per_chunk, i, chunks, current_chunk_sentences, current_chunk_loc_selector) ==
    IF i > Len(all_sentences_data)
    THEN [chunks_to_store |-> chunks, current_chunk_sentences |-> current_chunk_sentences,
          current_chunk_loc_selector |-> current_chunk_loc_selector]
    ELSE LET sentence_data == all_sentences_data[i]
             sentences == Append(current_chunk_sentences, sentence_data.text)
             loc == IF ~current_chunk_loc_selector.present
                    THEN Some(sentence_data.loc_selector)
                    ELSE current_chunk_loc_selector
         IN  IF Len(sentences) = sentences_per_chunk
             THEN chunking_loop(url, all_sentences_data, sentences_per_chunk, i + 1,
                                Append(chunks, Chunk(url, sentences, Len(chunks), loc)),
                                <<>>, None)
             ELSE chunking_loop(url, all_sentences_data, sentences_per_chunk, i + 1,
                                chunks, sentences, loc)

(* a loop whose remaining sentences are not added as the last chunk *)
index_url_chunks_without_rest(url, all_sentences_data, sentences_per_chunk) ==
    chunking_loop(url, all_sentences_data, sentences_per_chunk, 1, <<>>, <<>>, None).chunks_to_store

(* chunks_to_store after the loop and the statement that adds the remaining
   sentences as the last chunk *)
index_url_chunks(url, all_sentences_data, sentences_per_chunk) ==
    LET after == chunking_loop(url, all_sentences_data, sentences_per_chunk, 1, <<>>, <<>>, None)
    IN  IF after.current_chunk_sentences # <<>>
        THEN Append(after.chunks_to_store,
                    Chunk(url, after.current_chunk_sentences, Len(after.chunks_to_store),
                          after.current_chunk_loc_selector))
        ELSE after.chunks_to_store

----------------------------------------------------------------------------
(* Bounds of the inputs *)

(* the longest list of sentences a page gives *)
MaxSentences == 11

(* the largest sentences_per_chunk *)
MaxPerChunk == 4

(* the number of generate_shi calls that are compared *)
MaxShiCalls == 2

(* the longest hexadecimal SHI a caller passes or a received marker carries *)
MaxShiLen == 11

(* the longest dependency list passed to construct_relationship_marker *)
MaxDeps == 2

(* the number of pieces a received document body is composed of *)
MaxPieces == 2

----------------------------------------------------------------------------
(* The inputs the callers draw from *)

HexCycle == <<"a", "b", "c", "d", "e", "f", "0", "1", "2", "3", "4", "5", "6", "7", "8", "9">>

(* a hexadecimal string of n characters *)
HexStr(n) == [i \in 1..n |-> HexCycle[((i - 1) % Len(HexCycle)) + 1]]

RECURSIVE Concat(_)
Concat(parts) == IF parts = <<>> THEN <<>> ELSE Head(parts) \o Concat(Tail(parts))

(* the sequences over S of length 0..n *)
SeqUpTo(S, n) == UNION {[1..m -> S] : m \in 0..n}

(* the canonical_uri and version_tag arguments of generate_shi *)
UriInputs == {<<"a">>, <<" ", "A">>, <<"a", "|", "b">>, <<"b">>}

VersionTagInputs == {<<"c">>, <<"b", "|", "c">>, <<"C", "\t">>}

ShiInputs ==
    {None, Some(<<"A", "B", "C", "D", "E", "F", "0", "1">>), Some(<<"a", "b", "c", "d", "e", "f", "g", "h">>)}
    \cup {Some(HexStr(n)) : n \in 0..MaxShiLen}

SelectorInputs ==
    {None, Some(<<>>), Some(<<"x">>), Some(<<"c", "s", "s", "=", "p", " ", ">", " ", "a">>), Some(<<"a", ":", "b", "[", "c">>), Some(<<"a", "]", "b">>)}

ClaimIdInputs == {<<"C", "1">>, <<"C", "_", "2">>, <<>>, <<"C", "-", "1">>}

RelationshipIdInputs == {<<"R", "1">>, <<>>, <<"R", " ", "1">>}

RelTypeInputs == {<<>>, <<"x", "(", "y">>, <<"S", "U", "P", "P", "O", "R", "T", "S">>, <<"a", ":", "b">>, <<"a", ")", "b">>}

DepIdInputs == {<<"C", "1">>, <<"C", "2">>, <<>>, <<"a", ",", "b">>, <<"C", ")">>}

ClaimInputs == {<<"C", "l", "a", "i", "m", " ", "t", "e", "x", "t">>, <<" ", "C", "l", "a", "i", "m", ".", " ">>}

GenShiInputs == {None, Some(<<>>), Some(HexStr(SHI_PREFIX_MIN - 1)), Some(HexStr(MaxShiLen + 1))}

GenSelectorInputs == {None, Some(<<"c", "s", "s", "=", "p", " ", ">", " ", "a">>), Some(<<"a", "]", "b">>)}

SourceUriInputs == {None, Some(<<"u">>)}

NoDeps == [present |-> FALSE, l |-> <<>>]

(* relationship_metadata: supplied is FALSE for None; given is its truth value,
   FALSE for None and for an empty dict *)
RelMeta(given, id, type, deps, prose, logic, ts) ==
    [supplied |-> given, given |-> given, RELATION_ID |-> id, TYPE |-> type, DEP_CLAIMS |-> deps,
     SYNTHESIS_PROSE |-> prose, LOGIC_MODEL |-> logic, TIMESTAMP |-> ts]

NoRelMeta == RelMeta(FALSE, None, None, NoDeps, None, None, None)

(* relationship_metadata = {} *)
EmptyRelMeta == [NoRelMeta EXCEPT !.supplied = TRUE]

RelMetaInputs ==
    {NoRelMeta, EmptyRelMeta,
     RelMeta(TRUE, None, Some(<<"a", ")", "b">>), NoDeps, None, Some(<<"m">>), None),
     RelMeta(TRUE, None, Some(<<"S", "U", "P", "P", "O", "R", "T", "S">>), NoDeps, None, Some(<<"m">>), None),
     RelMeta(TRUE, None, Some(<<"S", "U", "P", "P", "O", "R", "T", "S">>), NoDeps, None, None, None),
     RelMeta(TRUE, None, Some(<<"S", "U", "P", "P", "O", "R", "T", "S">>), NoDeps, None, Some(<<>>), None),
     RelMeta(TRUE, None, None, NoDeps, None, Some(<<"m">>), None),
     RelMeta(TRUE, Some(<<"R", "2">>), Some(<<"C", "O", "N", "T", "R", "A", "D", "I", "C", "T", "S">>),
             [present |-> TRUE, l |-> <<<<"C", "1">>, <<"C", "2">>>>], Some(<<"p">>), Some(<<"m">>), Some(<<"t">>)),
     RelMeta(TRUE, None, Some(<<"S", "U", "P", "P", "O", "R", "T", "S">>), [present |-> TRUE, l |-> <<>>], None,
             Some(<<"m">>), None)}

(* a claim marker as it stands in a received document, with an SHI field of n
   hexadecimal characters *)
MarkerPiece(n) == <<"[", "C", "1", ":">> \o HexStr(n) \o <<":", "x", "]">>

BodyPieces ==
    {<<"S", "e", "n", "t", "e", "n", "c", "e", " ", "A", ".", " ">>, <<".", " ", "S", "e", "n", "t", "e", "n", "c", "e", " ", "B", ".", " ">>, <<"(", "R", "1", ":", "S", "U", "P", "P", "O", "R", "T", "S", ":", "C", "1", ",", "C", "2", ")">>, <<"[", "A", ":", "a", "b", "c", "d", "e", "f", "0", "1", ":">>}
    \cup {MarkerPiece(n) : n \in (SHI_PREFIX_MIN - 1)..MaxShiLen}

ExampleText == <<"S", "e", "n", "t", "e", "n", "c", "e", " ", "A", ".", " ", "[", "C", "1", ":", "a", "b", "c", "d", "e", "f", "0", "1", "2", "3", ":", "l", "o", "c", "1", "]", ".", " ", "S", "e", "n", "t", "e", "n", "c", "e", " ", "B", ".", " ", "[", "C", "2", ":", "a", "b", "c", "d", "e", "f", "0", "1", "2", "3", ":", "l", "o", "c", "2", "]", ".">>

(* the bodies of the received documents *)
Bodies == {Concat(p) : p \in SeqUpTo(BodyPieces, MaxPieces)} \cup {ExampleText}

(* the bodies that are sent with a registry part *)
TailBodies == {<<>>, <<"x", " ", "[", "C", "1", ":", "a", "b", "c", "d", "e", "f", "0", "1", "2", "3", ":", "l", "o", "c", "1", "]", " ", "y">>}

(* a registry block as a producer writes it *)
Block(content) == <<"\n">> \o ACG_START_LINE \o <<"\n">> \o content \o <<"\n">> \o ACG_END_LINE

(* registry contents that are not JSON *)
BadJson == {<<>>, <<"{", "b", "a", "d">>, <<"{", "\"", "S", "S", "R", "\"", ":", " ", "[", "]", ",", " ", "\"", "V", "A", "R", "\"", ":", " ", "[", "]", "}", " ", "x">>, <<"[", "1", ",", "]">>, <<"{", "\"", "S", "S", "R", "\"", ":", " ", "[", "{", "\"", "S", "H", "I", "\"", ":", " ", "\"", "a", "\\", "q", "b", "\"", "}", "]", "}">>}

(* registry contents that are JSON, but not an object whose SSR and VAR are
   lists of entries that each carry their SHI / RELATION_ID *)
MalformedJson ==
    {<<"5">>,
     <<"n", "u", "l", "l">>,
     <<"\"", "x", "S", "S", "R", "x", "\"">>,
     <<"\"", "a", "b", "c", "\"">>,
     <<"[", "1", "]">>,
     <<"[", "\"", "S", "S", "R", "\"", "]">>,
     <<"{", "}">>,
     <<"{", "\"", "S", "S", "R", "\"", ":", " ", "[", "]", "}">>,
     <<"{", "\"", "V", "A", "R", "\"", ":", " ", "[", "]", "}">>,
     <<"{", "\"", "S", "S", "R", "\"", ":", " ", "{", "}", ",", " ", "\"", "V", "A", "R", "\"", ":", " ", "[", "]", "}">>,
     <<"{", "\"", "S", "S", "R", "\"", ":", " ", "[", "]", ",", " ", "\"", "V", "A", "R", "\"", ":", " ", "5", "}">>,
     <<"{", "\"", "S", "S", "R", "\"", ":", " ", "[", "1", "]", ",", " ", "\"", "V", "A", "R", "\"", ":", " ", "[", "]", "}">>,
     <<"{", "\"", "S", "S", "R", "\"", ":", " ", "[", "{", "}", "]", ",", " ", "\"", "V", "A", "R", "\"", ":", " ", "[", "]", "}">>,
     <<"{", "\"", "S", "S", "R", "\"", ":", " ", "[", "{", "\"", "S", "H", "I", "\"", ":", " ", "[", "1", "]", "}", "]", ",", " ", "\"", "V", "A", "R", "\"", ":", " ", "[", "]", "}">>,
     <<"{", "\"", "S", "S", "R", "\"", ":", " ", "[", "]", ",", " ", "\"", "V", "A", "R", "\"", ":", " ", "[", "{", "}", "]", "}">>}

(* registry contents that are such an object *)
WellFormedJson ==
    {<<"{", "\"", "S", "S", "R", "\"", ":", " ", "[", "]", ",", " ", "\"", "V", "A", "R", "\"", ":", " ", "[", "]", "}">>,
     <<"{", "\"", "S", "S", "R", "\"", ":", " ", "[", "{", "\"", "S", "H", "I", "\"", ":", " ", "\"", "a", "\"", "}", ",", " ", "{", "\"", "S", "H", "I", "\"", ":", " ", "\"", "b", "\"", "}", ",", " ", "{", "\"", "S", "H", "I", "\"", ":", " ", "\"", "a", "\"", ",", " ", "\"", "x", "\"", ":", " ", "1", "}", "]", ",", " ", "\"", "V", "A", "R", "\"", ":", " ", "[", "{", "\"", "R", "E", "L", "A", "T", "I", "O", "N", "_", "I", "D", "\"", ":", " ", "\"", "R", "1", "\"", "}", "]", "}">>,
     <<"{", "\"", "S", "S", "R", "\"", ":", " ", "[", "{", "\"", "S", "H", "I", "\"", ":", " ", "\"", "[", "C", "7", ":", "a", "b", "c", "d", "e", "f", "0", "1", "2", "3", ":", "q", "]", "\"", "}", "]", ",", " ", "\"", "V", "A", "R", "\"", ":", " ", "[", "]", "}", " ">>}

(* registry contents that are JSON *)
GoodJson == MalformedJson \cup WellFormedJson

(* what follows the body: nothing, one block, two blocks, or a block that is
   not closed *)
Tails ==
    {Block(c) : c \in BadJson \cup GoodJson}
    \cup {Block(<<"{", "\"", "S", "S", "R", "\"", ":", " ", "[", "{", "\"", "S", "H", "I", "\"", ":", " ", "\"", "a", "\"", "}", "]", ",", " ", "\"", "V", "A", "R", "\"", ":", " ", "[", "]", "}">>) \o Block(<<"{", "\"", "S", "S", "R", "\"", ":", " ", "[", "{", "\"", "S", "H", "I", "\"", ":", " ", "\"", "b", "\"", "}", "]", ",", " ", "\"", "V", "A", "R", "\"", ":", " ", "[", "]", "}">>),
          Block(<<"{", "b", "a", "d">>) \o Block(<<"{", "\"", "S", "S", "R", "\"", ":", " ", "[", "]", ",", " ", "\"", "V", "A", "R", "\"", ":", " ", "[", "]", "}">>),
          <<"\n">> \o ACG_START_LINE \o <<"\n">> \o <<"{", "\"", "S", "S", "R", "\"", ":", " ", "[", "]", ",", " ", "\"", "V", "A", "R", "\"", ":", " ", "[", "]", "}">>,
          <<"\n">> \o ACG_END_LINE \o Block(<<"{", "\"", "S", "S", "R", "\"", ":", " ", "[", "]", ",", " ", "\"", "V", "A", "R", "\"", ":", " ", "[", "]", "}">>),
          <<" ">> \o ACG_START_LINE \o <<" ", "x">>}

(* the documents a verifier receives from elsewhere: marker syntax of every
   kind in prose, without a registry part *)
ReceivedTexts == Bodies

(* the generated texts an agent (StrandAgent) hands over: a body, alone or with
   a registry part *)
AgentTexts ==
    {b \o t : b \in TailBodies, t \in Tails}
    \cup {<<"x", "\n">> \o ACG_END_LINE \o <<"\n", "y">>}
    \cup {ExampleText, <<" ", " ", "x", " ", "[", "C", "1", ":", "a", "b", "c", "d", "e", "f", "0", "1", "2", "3", ":", "l", "o", "c", "1", "]", " ", "\n">>, <<"x", " ", "-", "-", "-", " ", "A", "C", "G", "_", "S", "T", "A", "R", "T", " ", "-", "-", "-", "\n", "y">>}

EmptyDict == Dict(<<>>, <<>>)

SHI_1 == HexStr(MaxShiLen + 1)

EntryPlain == Dict(<<Str(K_SHI), Str(K_Loc_Selector)>>, <<Str(SHI_1), Str(<<"p", " ", ">", " ", "a">>)>>)

EntryWithId == Dict(<<Str(K_SHI), Str(<<"_", "i", "d">>)>>, <<Str(SHI_1), ObjectId(<<"5", "f", "1", "a">>)>>)

EntryOther == Dict(<<Str(K_SHI), Str(K_AUDIT_STATUS)>>, <<Str(<<"0", "1", "2", "3", "a", "b", "c", "d">>), Str(<<"V", "E", "R", "I", "F", "I", "E", "D">>)>>)

RelationVerified ==
    Dict(<<Str(K_RELATION_ID), Str(K_AUDIT_STATUS)>>, <<Str(<<"R", "1">>), Str(<<"V", "E", "R", "I", "F", "I", "E", "D">>)>>)

(* verified source maps a verifier passes to the assembler whatever the draft *)
VerifiedSsrInputs ==
    {EmptyDict,
     Dict(<<Str(SHI_1)>>, <<EntryPlain>>),
     Dict(<<Str(SHI_1)>>, <<EntryWithId>>),
     Dict(<<Str(<<"k", "1">>)>>, <<EntryPlain>>),
     Dict(<<Str(SHI_1), Str(<<"0", "1", "2", "3", "a", "b", "c", "d">>)>>, <<EntryPlain, EntryOther>>)}

(* a verified relation entry whose prose cites a claim and a relationship in
   marker syntax *)
RelationWithProse ==
    Dict(<<Str(K_RELATION_ID), Str(K_SYNTHESIS_PROSE)>>,
         <<Str(<<"R", "2">>), Str(<<"s", "e", "e", " ", "[", "C", "9", ":", "a", "b", "c", "d", "e", "f", "0", "1", ":", "x", "]", " ", "(", "R", "3", ":", "t", ":", "C", "9", ")">>)>>)

VerifiedVarInputs ==
    {EmptyDict, Dict(<<Str(<<"R", "1">>)>>, <<RelationVerified>>),
     Dict(<<Str(<<"R", "2">>)>>, <<RelationWithProse>>)}

(* the draft as the verifier returns it: its status set *)
Audited(entry, status) == DictSet(entry, Str(K_AUDIT_STATUS), Str(status))

(* the verified maps a verifier builds from the drafts of generate_grounded_text *)
VerifiedSsrOf(out) ==
    IF out.ssr_entry.t # "dict" THEN {}
    ELSE {Dict(<<DictGet(out.ssr_entry, Str(K_SHI))>>, <<e>>) :
              e \in {out.ssr_entry, Audited(out.ssr_entry, <<"V", "E", "R", "I", "F", "I", "E", "D">>)}}

VerifiedVarOf(out) ==
    IF out.var_entry.t # "dict" THEN {}
    ELSE {Dict(<<DictGet(out.var_entry, Str(K_RELATION_ID))>>, <<e>>) :
              e \in {out.var_entry, Audited(out.var_entry, <<"V", "E", "R", "I", "F", "I", "E", "D">>)}}

(* the sentences of a page: text stripped and not empty, with the selector of
   the element it stands in *)
SentenceCycle ==
    <<[text |-> <<"A", " ", "b", ".">>, loc_selector |-> <<"#", "x">>],
      [text |-> <<"C", "?">>, loc_selector |-> <<"#", "x">>],
      [text |-> <<"d", " ", "e", " ", "f", "!">>, loc_selector |-> <<"d", "i", "v", " ", ">", " ", "p", ":", "n", "t", "h", "-", "o", "f", "-", "t", "y", "p", "e", "(", "2", ")">>]>>

SentenceInputs == {SentenceCycle[i] : i \in 1..Len(SentenceCycle)}

(* every list of up to two sentences, and one list of each longer length *)
SentenceListInputs ==
    SeqUpTo(SentenceInputs, 2)
    \cup {[i \in 1..n |-> SentenceCycle[((i - 1) % Len(SentenceCycle)) + 1]] :
              n \in 3..MaxSentences}

SentencesPerChunkInputs == 0..MaxPerChunk

UrlInputs == {<<"h", "t", "t", "p", ":", "/", "/", "h", "/", "p">>}

----------------------------------------------------------------------------
(* The state: the document in flight (text), the operation that produced it
   (origin) with its arguments (input) and its result (outcome), the call of
   assemble_final_output on it (asm) and the result of parse_acg_data on the
   document (parsed); the calls of generate_shi made so far (shis); the
   mutable objects of the last call (effects); and the delimiter set the
   protocol object holds, self.acg_delimiters (acg_delimiters); and the
   chunks the indexer built for the page it was given (chunks_to_store). *)

NotAssembled ==
    [called |-> FALSE, generated_text |-> <<>>, verified_ssr |-> EmptyDict,
     verified_var |-> EmptyDict, raised |-> ""]

NotParsed ==
    [called |-> FALSE, raised |-> "", igms |-> <<>>, rms |-> <<>>,
     ssr_dict |-> PyNone, var_dict |-> PyNone]

Init ==
    /\ text = <<>>
    /\ origin = "none"
    /\ input = <<>>
    /\ outcome = GenResult("", <<>>, PyNone, PyNone)
    /\ asm = NotAssembled
    /\ parsed = NotParsed
    /\ shis = <<>>
    /\ effects = Effects({}, {}, {})
    /\ acg_delimiters = ACG_DELIMITERS
    /\ chunks_to_store = <<>>

(* a producer calls construct_igm *)
ConstructIgm(shi, loc_selector, claim_id) ==
    /\ origin = "none"
    /\ LET source_metadata == [shi |-> shi, loc_selector |-> loc_selector, source_uri |-> None]
           r == construct_igm(source_metadata, claim_id)
       IN  /\ origin' = "construct_igm"
           /\ input' = [source_metadata |-> source_metadata, claim_id |-> claim_id]
           /\ outcome' = GenResult(r.raised, r.s, PyNone, PyNone)
           /\ text' = r.s
    /\ effects' = construct_igm_effects
    /\ UNCHANGED <<asm, parsed, shis, acg_delimiters, chunks_to_store>>

(* a producer calls construct_relationship_marker *)
ConstructRelationshipMarker(relationship_id, rel_type, dependency_claims) ==
    /\ origin = "none"
    /\ LET r == construct_relationship_marker(relationship_id, rel_type, dependency_claims)
       IN  /\ origin' = "construct_relationship_marker"
           /\ input' = [relationship_id |-> relationship_id, rel_type |-> rel_type,
                        dependency_claims |-> dependency_claims]
           /\ outcome' = GenResult(r.raised, r.s, PyNone, PyNone)
           /\ text' = r.s
    /\ effects' = construct_relationship_marker_effects
    /\ UNCHANGED <<asm, parsed, shis, acg_delimiters, chunks_to_store>>

(* the generator agent calls generate_grounded_text *)
GenerateGroundedText(claim, source_metadata, relationship_metadata) ==
    /\ origin = "none"
    /\ LET r == generate_grounded_text(claim, source_metadata, relationship_metadata)
       IN  /\ origin' = "generate_grounded_text"
           /\ input' = [claim |-> claim, source_metadata |-> source_metadata,
                        relationship_metadata |-> relationship_metadata]
           /\ outcome' = r
           /\ text' = r.s
    /\ effects' = generate_grounded_text_effects(relationship_metadata,
                   generate_grounded_text(claim, source_metadata, relationship_metadata).raised)
    /\ UNCHANGED <<asm, parsed, shis, acg_delimiters, chunks_to_store>>

(* the verifier receives a document written elsewhere *)
ReceiveText(t) ==
    /\ origin = "none"
    /\ origin' = "received"
    /\ input' = [document |-> t]
    /\ outcome' = GenResult("", t, PyNone, PyNone)
    /\ text' = t
    /\ UNCHANGED <<asm, parsed, shis, effects, acg_delimiters, chunks_to_store>>

(* an agent hands over the text it generated *)
AgentText(t) ==
    /\ origin = "none"
    /\ origin' = "agent"
    /\ input' = [document |-> t]
    /\ outcome' = GenResult("", t, PyNone, PyNone)
    /\ text' = t
    /\ UNCHANGED <<asm, parsed, shis, effects, acg_delimiters, chunks_to_store>>

(* the verifier calls parse_acg_data on the document *)
ParseAcgData ==
    /\ origin # "none"
    /\ outcome.raised = ""
    /\ asm.raised = ""
    /\ ~parsed.called
    /\ parsed' = [called |-> TRUE] @@ parse_acg_data(text)
    /\ effects' = parse_acg_data_effects(parse_acg_data(text).raised)
    /\ UNCHANGED <<text, origin, input, outcome, asm, shis, acg_delimiters, chunks_to_store>>

(* the verifier calls assemble_final_output on the document, with verified maps *)
AssembleFinalOutput(verified_ssr, verified_var) ==
    /\ origin \in {"generate_grounded_text", "agent"}
    /\ outcome.raised = ""
    /\ ~asm.called
    /\ LET r == assemble_final_output(text, verified_ssr, verified_var)
       IN  /\ asm' = [called |-> TRUE, generated_text |-> text,
                      verified_ssr |-> verified_ssr, verified_var |-> verified_var,
                      raised |-> r.raised]
           /\ text' = r.s
    /\ parsed' = NotParsed
    /\ effects' = assemble_final_output_effects
    /\ UNCHANGED <<origin, input, outcome, shis, acg_delimiters, chunks_to_store>>

(* a caller calls generate_shi *)
GenerateShi(canonical_uri, version_tag) ==
    /\ origin \in {"none", "generate_shi"}
    /\ Len(shis) < MaxShiCalls
    /\ origin' = "generate_shi"
    /\ input' = [canonical_uri |-> canonical_uri, version_tag |-> version_tag]
    /\ shis' = Append(shis, [canonical_uri |-> canonical_uri, version_tag |-> version_tag,
                              data |-> generate_shi_data(canonical_uri, version_tag),
                              shi |-> generate_shi(canonical_uri, version_tag)])
    /\ effects' = generate_shi_effects
    /\ UNCHANGED <<text, outcome, asm, parsed, acg_delimiters, chunks_to_store>>

(* index_url on a page whose elements gave all_sentences_data: it returns
   early when there is no sentence, and builds the chunks otherwise *)
IndexUrl(url, all_sentences_data, sentences_per_chunk) ==
    /\ origin = "none"
    /\ origin' = "index_url"
    /\ input' = [url |-> url, all_sentences_data |-> all_sentences_data,
                 sentences_per_chunk |-> sentences_per_chunk]
    /\ chunks_to_store' = IF all_sentences_data = <<>> THEN <<>>
                          ELSE index_url_chunks(url, all_sentences_data, sentences_per_chunk)
    /\ UNCHANGED <<text, outcome, asm, parsed, shis, effects, acg_delimiters>>

Next ==
    \/ \E shi \in ShiInputs, loc_selector \in SelectorInputs, claim_id \in ClaimIdInputs :
           ConstructIgm(shi, loc_selector, claim_id)
    \/ \E relationship_id \in RelationshipIdInputs, rel_type \in RelTypeInputs,
          dependency_claims \in SeqUpTo(DepIdInputs, MaxDeps) :
           ConstructRelationshipMarker(relationship_id, rel_type, dependency_claims)
    \/ \E claim \in ClaimInputs, shi \in GenShiInputs, loc_selector \in GenSelectorInputs,
          source_uri \in SourceUriInputs, relationship_metadata \in RelMetaInputs :
           GenerateGroundedText(claim,
               [shi |-> shi, loc_selector |-> loc_selector, source_uri |-> source_uri],
               relationship_metadata)
    \/ \E canonical_uri \in UriInputs, version_tag \in VersionTagInputs :
           GenerateShi(canonical_uri, version_tag)
    \/ \E url \in UrlInputs, all_sentences_data \in SentenceListInputs,
          sentences_per_chunk \in SentencesPerChunkInputs :
           IndexUrl(url, all_sentences_data, sentences_per_chunk)
    \/ \E t \in ReceivedTexts : ReceiveText(t)
    \/ \E t \in AgentTexts : AgentText(t)
    \/ ParseAcgData
    \/ \E verified_ssr \in VerifiedSsrInputs \cup VerifiedSsrOf(outcome),
          verified_var \in VerifiedVarInputs \cup VerifiedVarOf(outcome) :
           AssembleFinalOutput(verified_ssr, verified_var)

Spec == Init /\ [][Next]_vars

----------------------------------------------------------------------------
(* Vocabulary of the properties *)

(* a word token: one or more word characters *)
IsWordToken(s) == s # <<>> /\ \A i \in 1..Len(s) : s[i] \in WordChars

IsHexString(s) == \A i \in 1..Len(s) : s[i] \in HexChars

Has(s, c) == \E i \in 1..Len(s) : s[i] = c

(* the first n characters of s *)
FirstChars(s, n) == [i \in 1..(IF Len(s) < n THEN Len(s) ELSE n) |-> s[i]]

(* the arguments of a construct_igm call for which the round trip is claimed *)
ValidIgmInput(in) ==
    /\ IsWordToken(in.claim_id)
    /\ in.source_metadata.shi.present
    /\ IsHexString(in.source_metadata.shi.s)
    /\ Len(in.source_metadata.shi.s) >= 8
    /\ in.source_metadata.loc_selector.present
    /\ in.source_metadata.loc_selector.s # <<>>
    /\ ~Has(in.source_metadata.loc_selector.s, "]")

(* C1: for a word-token claim_id, a hexadecimal shi of at least 8 characters
   and a non-empty location_selector without ']', construct_igm returns a
   marker on which parse_acg_data returns exactly one claim marker, with the
   claim_id, the first 10 characters of the shi and the location_selector that
   were passed. *)
C1_ClaimMarkerRoundTrip ==
    (origin = "construct_igm" /\ ValidIgmInput(input)) =>
        /\ outcome.raised = ""
        /\ parsed.called =>
              /\ parsed.raised = ""
              /\ Len(parsed.igms) = 1
              /\ parsed.igms[1].claim_id = input.claim_id
              /\ parsed.igms[1].shi = FirstChars(input.source_metadata.shi.s, 10)
              /\ parsed.igms[1].loc = input.source_metadata.loc_selector.s

(* a marker built from a shi longer than the prefix and a selector that holds
   delimiters has been parsed *)
C1_Witness ==
    /\ origin = "construct_igm"
    /\ ValidIgmInput(input)
    /\ Len(input.source_metadata.shi.s) > 10
    /\ Has(input.source_metadata.loc_selector.s, ":")
    /\ parsed.called
    /\ Len(parsed.igms) = 1

(* C2 as stated: for every word-token relationship_id, every non-empty
   relation_type and every non-empty dependency list, parse_acg_data on the
   string construct_relationship_marker returns yields exactly one relationship
   marker with the same relationship_id, type and dependency list. *)
C2_AsStated ==
    (/\ origin = "construct_relationship_marker"
     /\ IsWordToken(input.relationship_id)
     /\ input.rel_type # <<>>
     /\ input.dependency_claims # <<>>) =>
        /\ outcome.raised = ""
        /\ parsed.called =>
              /\ parsed.raised = ""
              /\ Len(parsed.rms) = 1
              /\ parsed.rms[1].relationship_id = input.relationship_id
              /\ parsed.rms[1].type = input.rel_type
              /\ parsed.rms[1].dep_claims = input.dependency_claims

(* the arguments of a construct_relationship_marker call that the marker
   grammar can carry: no separator or end delimiter in the type, no ',' or end
   delimiter in a dependency id, and not the single empty id *)
ValidRmInput(in) ==
    /\ IsWordToken(in.relationship_id)
    /\ in.rel_type # <<>>
    /\ ~Has(in.rel_type, ":") /\ ~Has(in.rel_type, ")")
    /\ in.dependency_claims # <<>>
    /\ in.dependency_claims # <<<<>>>>
    /\ \A i \in 1..Len(in.dependency_claims) :
           ~Has(in.dependency_claims[i], ",") /\ ~Has(in.dependency_claims[i], ")")

(* C2, amended: the round trip of a relationship marker holds when, besides,
   the relation_type holds neither ':' nor ')', no dependency id holds ',' or
   ')', and the dependency list is not the single empty id. *)
C2_RelationshipMarkerRoundTrip ==
    (origin = "construct_relationship_marker" /\ ValidRmInput(input)) =>
        /\ outcome.raised = ""
        /\ parsed.called =>
              /\ parsed.raised = ""
              /\ Len(parsed.rms) = 1
              /\ parsed.rms[1].relationship_id = input.relationship_id
              /\ parsed.rms[1].type = input.rel_type
              /\ parsed.rms[1].dep_claims = input.dependency_claims

(* a marker with two dependency ids, one of them empty, has been parsed *)
C2_Witness ==
    /\ origin = "construct_relationship_marker"
    /\ ValidRmInput(input)
    /\ Len(input.dependency_claims) = 2
    /\ input.dependency_claims[2] = <<>>
    /\ parsed.called
    /\ Len(parsed.rms) = 1

(* C8: construct_igm raises the missing-field error, and returns nothing, when
   the shi or the location_selector is absent or empty;
   construct_relationship_marker raises it when the relationship_id, the
   relation_type or the dependency list is empty; in every other case each
   returns a marker string, opened and closed by its delimiters. *)
C8_MissingFieldRejection ==
    /\ origin = "construct_igm" =>
          LET shi == input.source_metadata.shi
              loc == input.source_metadata.loc_selector
              missing == \/ ~shi.present \/ shi.s = <<>>
                         \/ ~loc.present \/ loc.s = <<>>
          IN  IF missing THEN outcome.raised = "ValueError" /\ outcome.s = <<>>
              ELSE /\ outcome.raised = ""
                   /\ Len(outcome.s) >= 2
                   /\ Head(outcome.s) = "[" /\ outcome.s[Len(outcome.s)] = "]"
    /\ origin = "construct_relationship_marker" =>
          LET missing == \/ input.relationship_id = <<>>
                         \/ input.rel_type = <<>>
                         \/ input.dependency_claims = <<>>
          IN  IF missing THEN outcome.raised = "ValueError" /\ outcome.s = <<>>
              ELSE /\ outcome.raised = ""
                   /\ Len(outcome.s) >= 2
                   /\ Head(outcome.s) = "(" /\ outcome.s[Len(outcome.s)] = ")"

(* construct_igm has rejected a source whose shi is given and whose
   location_selector is empty *)
C8_Witness ==
    /\ origin = "construct_igm"
    /\ Truthy(input.source_metadata.shi)
    /\ input.source_metadata.loc_selector = Some(<<>>)
    /\ outcome.raised = "ValueError"

----------------------------------------------------------------------------
(* The marker grammars, stated on the positions of the delimiters *)

(* the positions of the character c in s *)
Pos(s, c) == {i \in 1..Len(s) : s[i] = c}

(* every k in lo..hi has s[k] in S *)
AllIn(s, lo, hi, S) == \A k \in lo..hi : s[k] \in S

(* no k in lo..hi has s[k] in S *)
NoneIn(s, lo, hi, S) == \A k \in lo..hi : s[k] \notin S

(* the substrings of s of the shape '[id:H:loc]': id a word token, H a run of
   hexadecimal characters, loc non-empty without ']'; start and end are the
   positions of the brackets, a and b those of the two separators *)
ClaimShapesIn(s) ==
    UNION {UNION {UNION {
        {[start |-> i, a |-> a, b |-> b, end |-> j] :
            j \in {j \in Pos(s, "]") : j > b + 1 /\ NoneIn(s, b + 1, j - 1, {"]"})}}
        : b \in {b \in Pos(s, ":") : b > a + 1 /\ AllIn(s, a + 1, b - 1, HexChars)}}
        : a \in {a \in Pos(s, ":") : a > i + 1 /\ AllIn(s, i + 1, a - 1, WordChars)}}
        : i \in Pos(s, "[")}

(* the length of the SHI field of a shape *)
ShiLen(m) == m.b - m.a - 1

(* the claim markers of the grammar: the shapes with 8 to 10 SHI characters *)
ClaimMarkersIn(s) == {m \in ClaimShapesIn(s) : ShiLen(m) >= 8 /\ ShiLen(m) <= 10}

(* the substrings of s of the shape '(id:type:deps)': id a word token, type
   non-empty without ':' and ')', deps non-empty without ')' *)
RelMarkersIn(s) ==
    UNION {UNION {UNION {
        {[start |-> i, a |-> a, b |-> b, end |-> j] :
            j \in {j \in Pos(s, ")") : j > b + 1 /\ NoneIn(s, b + 1, j - 1, {")"})}}
        : b \in {b \in Pos(s, ":") : b > a + 1 /\ NoneIn(s, a + 1, b - 1, {":", ")"})}}
        : a \in {a \in Pos(s, ":") : a > i + 1 /\ AllIn(s, i + 1, a - 1, WordChars)}}
        : i \in Pos(s, "(")}

(* m starts inside o *)
Inside(m, o) == o.start < m.start /\ m.start <= o.end

(* the markers of G that stand outside every other marker of G *)
Outermost(G) == {m \in G : \A o \in G : ~Inside(m, o)}

(* the markers of T in the order of the text *)
InOrder(T) ==
    [k \in 1..Cardinality(T) |->
        CHOOSE m \in T : Cardinality({o \in T : o.start < m.start}) = k - 1]

(* the records igms are the claim markers T of s, field by field *)
IgmsAre(igms, s, T) ==
    /\ Len(igms) = Len(T)
    /\ \A k \in 1..Len(T) :
          /\ igms[k].claim_id = Slice(s, T[k].start + 1, T[k].a - 1)
          /\ igms[k].shi = Slice(s, T[k].a + 1, T[k].b - 1)
          /\ igms[k].loc = Slice(s, T[k].b + 1, T[k].end - 1)

(* the records rms are the relationship markers T of s: the dependency ids
   are the deps field cut at every ',' *)
RmsAre(rms, s, T) ==
    /\ Len(rms) = Len(T)
    /\ \A k \in 1..Len(T) :
          /\ rms[k].relationship_id = Slice(s, T[k].start + 1, T[k].a - 1)
          /\ rms[k].type = Slice(s, T[k].a + 1, T[k].b - 1)
          /\ join(<<",">>, rms[k].dep_claims) = Slice(s, T[k].b + 1, T[k].end - 1)
          /\ \A d \in 1..Len(rms[k].dep_claims) : ~Has(rms[k].dep_claims[d], ",")

(* the number of places of s where the sequence w stands *)
Occurrences(s, w) == Cardinality({i \in 1..Len(s) : IsAt(s, i, w)})

(* x is y without its leading and trailing whitespace *)
IsTrimOf(x, y) ==
    /\ x # <<>> => x[1] \notin Whitespace /\ x[Len(x)] \notin Whitespace
    /\ \E a \in 1..(Len(y) + 1) :
          /\ a + Len(x) - 1 <= Len(y)
          /\ AllIn(y, 1, a - 1, Whitespace)
          /\ AllIn(y, a + Len(x), Len(y), Whitespace)
          /\ x = Slice(y, a, a + Len(x) - 1)

----------------------------------------------------------------------------
(* The registry properties *)

(* every entry of the map d carries its key in its SHI field *)
KeyedBySHI(d) ==
    \A i \in 1..Len(d.k) :
        /\ d.l[i].t = "dict"
        /\ HasKey(d.l[i], Str(K_SHI))
        /\ DictGet(d.l[i], Str(K_SHI)) = d.k[i]

RECURSIVE JsonSafe(_)
(* the value v as JSON carries it: an id-like value is its string *)
JsonSafe(v) ==
    IF v.t = "oid" THEN Str(v.s)
    ELSE IF v.t = "list" THEN List([i \in 1..Len(v.l) |-> JsonSafe(v.l[i])])
    ELSE IF v.t = "dict" THEN Dict(v.k, [i \in 1..Len(v.l) |-> JsonSafe(v.l[i])])
    ELSE v

(* C3 as stated: for a generated text in which no registry start or end marker
   stands and a verified source map whose entries carry their key as SHI,
   parse_acg_data on assemble_final_output(text, source_map, {}) returns a
   source registry map equal to the source map passed, and an empty relation
   registry map that is not None. *)
C3_AsStated ==
    (/\ asm.called /\ parsed.called
     /\ Occurrences(asm.generated_text, ACG_START_LINE) = 0
     /\ Occurrences(asm.generated_text, ACG_END_LINE) = 0
     /\ asm.verified_var = EmptyDict
     /\ KeyedBySHI(asm.verified_ssr)) =>
        /\ parsed.raised = ""
        /\ PyEq(parsed.ssr_dict, asm.verified_ssr)
        /\ parsed.var_dict = EmptyDict

(* C3, amended: for a generated text in which the registry start marker does
   not stand and a verified source map whose entries carry their key as SHI,
   parse_acg_data on assemble_final_output(text, source_map, {}) returns the
   source map as JSON carries it (an id-like value of an entry comes back as
   its string) and an empty relation registry map that is not None. *)
C3_RegistryRoundTrip ==
    (/\ asm.called /\ parsed.called
     /\ Occurrences(asm.generated_text, ACG_START_LINE) = 0
     /\ asm.verified_var = EmptyDict
     /\ KeyedBySHI(asm.verified_ssr)) =>
        /\ asm.raised = ""
        /\ parsed.raised = ""
        /\ PyEq(parsed.ssr_dict, JsonSafe(asm.verified_ssr))
        /\ parsed.var_dict = EmptyDict

(* a document assembled from a source map whose entry holds an id-like value
   has been parsed, and the map returned is not the one passed *)
C3_Witness ==
    /\ asm.called /\ parsed.called
    /\ Occurrences(asm.generated_text, ACG_START_LINE) = 0
    /\ asm.verified_var = EmptyDict
    /\ asm.verified_ssr = Dict(<<Str(SHI_1)>>, <<EntryWithId>>)
    /\ parsed.ssr_dict.t = "dict"
    /\ ~PyEq(parsed.ssr_dict, asm.verified_ssr)

(* the verified maps are built from the drafts generate_grounded_text returned *)
VerifiedFromDrafts ==
    /\ origin = "generate_grounded_text"
    /\ asm.called
    /\ asm.verified_ssr \in VerifiedSsrOf(outcome)
    /\ IF outcome.var_entry.t = "dict" THEN asm.verified_var \in VerifiedVarOf(outcome)
       ELSE asm.verified_var = EmptyDict

(* C4: when assemble_final_output is given the annotated text that
   generate_grounded_text returned, the assembled document carries exactly one
   registry block, and parse_acg_data on it returns the verified source and
   relation maps that were passed to assemble_final_output, not the drafts. *)
C4_VerifiedSupersedeDrafts ==
    (VerifiedFromDrafts /\ parsed.called) =>
        /\ Occurrences(text, ACG_START_LINE) = 1
        /\ Occurrences(text, ACG_END_LINE) = 1
        /\ parsed.raised = ""
        /\ PyEq(parsed.ssr_dict, JsonSafe(asm.verified_ssr))
        /\ PyEq(parsed.var_dict, JsonSafe(asm.verified_var))

(* the document is a body with claim markers followed by one registry block
   whose content is not JSON *)
InvalidJsonDocument ==
    /\ origin = "agent"
    /\ ~asm.called
    /\ \E b \in TailBodies, c \in BadJson : ClaimMarkersIn(b) # {} /\ text = b \o Block(c)

(* C5: on a text that holds claim markers and a registry block whose content
   is not valid JSON, parse_acg_data does not raise, returns every claim marker
   of the text, at least one, and returns None for both registry maps. *)
C5_InvalidJsonTolerated ==
    (InvalidJsonDocument /\ parsed.called) =>
        /\ parsed.raised = ""
        /\ parsed.igms # <<>>
        /\ IgmsAre(parsed.igms, text, InOrder(Outermost(ClaimMarkersIn(text))))
        /\ parsed.ssr_dict = PyNone
        /\ parsed.var_dict = PyNone

(* a document whose registry content is a JSON object followed by other text
   has been parsed *)
C5_Witness ==
    /\ InvalidJsonDocument
    /\ parsed.called
    /\ \E b \in TailBodies : text = b \o Block(<<"{", "\"", "S", "S", "R", "\"", ":", " ", "[", "]", ",", " ", "\"", "V", "A", "R", "\"", ":", " ", "[", "]", "}", " ", "x">>)
    /\ Len(parsed.igms) = 1

(* the document is a body followed by one registry block whose content is
   JSON, but no object with well-formed SSR and VAR lists *)
MalformedJsonDocument ==
    /\ origin = "agent"
    /\ ~asm.called
    /\ \E b \in TailBodies, c \in MalformedJson : text = b \o Block(c)

(* C6: on a text whose registry content decodes as JSON but is no object with
   well-formed SSR and VAR lists, parse_acg_data does not raise and returns
   None for both registry maps; and in every result of parse_acg_data the two
   registry maps are both None or both not None. *)
C6_NoPartialRegistry ==
    parsed.called =>
        /\ (parsed.ssr_dict = PyNone) <=> (parsed.var_dict = PyNone)
        /\ MalformedJsonDocument =>
              /\ parsed.raised = ""
              /\ parsed.ssr_dict = PyNone
              /\ parsed.var_dict = PyNone

----------------------------------------------------------------------------
(* The marker properties of the parser *)

(* C7: on a text in which the registry start marker does not stand, whatever
   half-formed marker syntax it holds, parse_acg_data does not raise, returns
   None for both registry maps, and returns as claim markers and relationship
   markers exactly the matches of the two marker grammars, read from left to
   right; what does not match is not returned. *)
C7_NoRegistryBlock ==
    (parsed.called /\ Occurrences(text, ACG_START_LINE) = 0) =>
        /\ parsed.raised = ""
        /\ parsed.ssr_dict = PyNone
        /\ parsed.var_dict = PyNone
        /\ IgmsAre(parsed.igms, text, InOrder(Outermost(ClaimMarkersIn(text))))
        /\ RmsAre(parsed.rms, text, InOrder(Outermost(RelMarkersIn(text))))

(* a received text without registry block, which opens a marker that is not
   closed before the next one starts, has been parsed *)
C7_Witness ==
    /\ origin = "received"
    /\ parsed.called
    /\ Occurrences(text, ACG_START_LINE) = 0
    /\ Cardinality(ClaimMarkersIn(text)) = 2
    /\ Len(parsed.igms) = 1
    /\ Has(parsed.igms[1].loc, "[")

(* the shape m of the text is among the records igms *)
ReturnedIn(igms, s, m) ==
    \E k \in 1..Len(igms) :
        /\ igms[k].claim_id = Slice(s, m.start + 1, m.a - 1)
        /\ igms[k].shi = Slice(s, m.a + 1, m.b - 1)
        /\ igms[k].loc = Slice(s, m.b + 1, m.end - 1)

(* C9: a claim marker '[id:H:loc]' whose SHI field H is a run of n hexadecimal
   characters is returned by parse_acg_data if and only if 8 <= n <= 10, be
   the marker the whole text or stand in it outside every other claim marker;
   and every claim marker returned has a shi of 8 to 10 characters. *)
C9_PrefixLengthBoundary ==
    (parsed.called /\ parsed.raised = "") =>
        /\ \A k \in 1..Len(parsed.igms) :
              Len(parsed.igms[k].shi) >= 8 /\ Len(parsed.igms[k].shi) <= 10
        /\ \A m \in ClaimShapesIn(text) :
              (m.start = 1 /\ m.end = Len(text)) =>
                  (ReturnedIn(parsed.igms, text, m) <=> (ShiLen(m) >= 8 /\ ShiLen(m) <= 10))
        /\ \A m \in ClaimShapesIn(text) :
              (\A o \in ClaimMarkersIn(text) : ~Inside(m, o)) =>
                  (ReturnedIn(parsed.igms, text, m) <=> (ShiLen(m) >= 8 /\ ShiLen(m) <= 10))

(* a received text with a marker of 7 and a marker of 8 SHI characters has
   been parsed, and one claim marker was returned *)
C9_Witness ==
    /\ origin = "received"
    /\ parsed.called
    /\ text = MarkerPiece(7) \o MarkerPiece(8)
    /\ Len(parsed.igms) = 1
    /\ Len(parsed.igms[1].shi) = 8

(* C10: the claim_context of every claim marker parse_acg_data returns is the
   text strictly between the end of the claim marker before it (the start of
   the document for the first) and its own start, without leading and trailing
   whitespace; for 'Sentence A. [C1:abcdef0123:loc1]. Sentence B.
   [C2:abcdef0123:loc2].' the contexts are 'Sentence A.' and '. Sentence B.'. *)
C10_ClaimContext ==
    (parsed.called /\ parsed.raised = "") =>
        LET T == InOrder(Outermost(ClaimMarkersIn(text)))
        IN  /\ Len(parsed.igms) = Len(T)
            /\ \A k \in 1..Len(T) :
                  IsTrimOf(parsed.igms[k].claim_context,
                           Slice(text, IF k = 1 THEN 1 ELSE T[k - 1].end + 1, T[k].start - 1))
            /\ text = ExampleText =>
                  /\ Len(parsed.igms) = 2
                  /\ parsed.igms[1].claim_context = <<"S", "e", "n", "t", "e", "n", "c", "e", " ", "A", ".">>
                  /\ parsed.igms[2].claim_context = <<".", " ", "S", "e", "n", "t", "e", "n", "c", "e", " ", "B", ".">>

(* the example text has been parsed and its two claim markers returned *)
C10_Witness ==
    /\ origin = "received"
    /\ parsed.called
    /\ text = ExampleText
    /\ Len(parsed.igms) = 2
    /\ parsed.igms[2].claim_id = <<"C", "2">>

----------------------------------------------------------------------------
(* The drafts of the generator *)

(* the source metadata holds the three keys generate_grounded_text reads *)
SourceKeysPresent(source_metadata) ==
    /\ source_metadata.shi.present
    /\ source_metadata.loc_selector.present
    /\ source_metadata.source_uri.present

(* o is a non-empty string *)
NonEmptyGiven(o) == o.present /\ o.s # <<>>

(* C11 as stated: generate_grounded_text builds a source entry draft in every
   successful call; it builds a relation entry draft if and only if
   relationship metadata is supplied; whenever relationship metadata is
   supplied without a non-empty LOGIC_MODEL it fails with the missing-field
   error and returns no text; every relation entry draft it returns has
   AUDIT_STATUS PENDING. *)
C11_AsStated ==
    origin = "generate_grounded_text" =>
        LET rel == input.relationship_metadata
        IN  /\ outcome.raised = "" => outcome.ssr_entry.t = "dict"
            /\ outcome.raised = "" => (outcome.var_entry.t = "dict" <=> rel.supplied)
            /\ (rel.supplied /\ ~NonEmptyGiven(rel.LOGIC_MODEL)) =>
                  outcome.raised = "ValueError" /\ outcome.s = <<>>
            /\ outcome.var_entry.t = "dict" =>
                  DictGet(outcome.var_entry, Str(K_AUDIT_STATUS)) = Str(<<"P", "E", "N", "D", "I", "N", "G">>)

(* C11, amended: generate_grounded_text builds a source entry draft in every
   successful call; it builds a relation entry draft if and only if non-empty
   relationship metadata is supplied (an empty mapping counts as none);
   whenever non-empty relationship metadata is supplied without a non-empty
   LOGIC_MODEL the call fails and returns no text and no draft, with the
   missing-field error when the source metadata holds shi, loc_selector and
   source_uri; every relation entry draft returned has AUDIT_STATUS PENDING. *)
C11_DraftEntries ==
    origin = "generate_grounded_text" =>
        LET rel == input.relationship_metadata
        IN  /\ outcome.raised = "" =>
                  /\ outcome.ssr_entry.t = "dict"
                  /\ DictGet(outcome.ssr_entry, Str(K_SHI)) = Str(input.source_metadata.shi.s)
            /\ outcome.raised = "" => (outcome.var_entry.t = "dict" <=> rel.given)
            /\ (rel.given /\ ~NonEmptyGiven(rel.LOGIC_MODEL)) =>
                  /\ outcome.raised # ""
                  /\ outcome.s = <<>>
                  /\ outcome.ssr_entry = PyNone /\ outcome.var_entry = PyNone
                  /\ SourceKeysPresent(input.source_metadata) => outcome.raised = "ValueError"
            /\ outcome.var_entry.t = "dict" =>
                  DictGet(outcome.var_entry, Str(K_AUDIT_STATUS)) = Str(<<"P", "E", "N", "D", "I", "N", "G">>)

(* generate_grounded_text has rejected relationship metadata whose LOGIC_MODEL
   is the empty string, for a source that holds every key *)
C11_Witness ==
    /\ origin = "generate_grounded_text"
    /\ SourceKeysPresent(input.source_metadata)
    /\ input.relationship_metadata.given
    /\ input.relationship_metadata.LOGIC_MODEL = Some(<<>>)
    /\ NonEmptyGiven(input.relationship_metadata.TYPE)
    /\ outcome.raised = "ValueError"

----------------------------------------------------------------------------
(* The source identity *)

(* s without its leading and trailing whitespace *)
Trimmed(s) ==
    CHOOSE x \in {Slice(s, a, b) : a \in 1..(Len(s) + 1), b \in 0..Len(s)} : IsTrimOf(x, s)

(* two strings are equal up to the case of their letters *)
SameLowerCased(x, y) ==
    /\ Len(x) = Len(y)
    /\ \A i \in 1..Len(x) :
          \/ x[i] = y[i]
          \/ \E k \in 1..Len(UpperCase) :
                {x[i], y[i]} = {UpperCase[k], LowerCase[k]}

(* the trimmed, lower-cased values of two arguments are equal *)
SameNormalized(x, y) == SameLowerCased(Trimmed(x), Trimmed(y))

(* C12: for all (uri1, version1) and (uri2, version2), the string generate_shi
   feeds to the digest, and so the hash, is the same if and only if the
   trimmed, lower-cased uris are equal and the trimmed, lower-cased versions
   are equal; two calls with the same inputs return the same hash. *)
C12_IdentityOfNormalizedPair ==
    \A i, j \in 1..Len(shis) :
        /\ (shis[i].data = shis[j].data) <=>
              (/\ SameNormalized(shis[i].canonical_uri, shis[j].canonical_uri)
               /\ SameNormalized(shis[i].version_tag, shis[j].version_tag))
        /\ (shis[i].shi = shis[j].shi) <=> (shis[i].data = shis[j].data)
        /\ (/\ shis[i].canonical_uri = shis[j].canonical_uri
            /\ shis[i].version_tag = shis[j].version_tag) => shis[i].shi = shis[j].shi

----------------------------------------------------------------------------
(* The round trip of the annotated text *)

(* the source metadata for which the round trip is claimed *)
ValidSourceMetadata(source_metadata) ==
    /\ source_metadata.shi.present
    /\ IsHexString(source_metadata.shi.s)
    /\ Len(source_metadata.shi.s) >= 8
    /\ source_metadata.loc_selector.present
    /\ source_metadata.loc_selector.s # <<>>
    /\ ~Has(source_metadata.loc_selector.s, "]")

(* no marker and no registry marker line stands in s *)
NoMarkerIn(s) ==
    /\ ClaimMarkersIn(s) = {}
    /\ RelMarkersIn(s) = {}
    /\ Occurrences(s, ACG_START_LINE) = 0
    /\ Occurrences(s, ACG_END_LINE) = 0

(* s opens no marker and holds no registry start marker *)
NoOpenerIn(s) == ~Has(s, "[") /\ ~Has(s, "(") /\ Occurrences(s, ACG_START_LINE) = 0

(* the strings of an optional value *)
StringsOf(o) == IF o.present THEN {o.s} ELSE {}

(* the arguments construct_relationship_marker gets from the metadata *)
MarkerArgsOf(rel) ==
    [relationship_id |-> IF rel.RELATION_ID.present THEN rel.RELATION_ID.s ELSE <<"R", "1">>,
     rel_type |-> rel.TYPE.s,
     dependency_claims |-> IF rel.DEP_CLAIMS.present THEN rel.DEP_CLAIMS.l ELSE <<<<"C", "1">>>>]

(* every string passed to generate_grounded_text opens no marker, and the
   relationship metadata, when there is one, fits the marker grammar *)
CarriableInput(in) ==
    LET rel == in.relationship_metadata
    IN  /\ NoOpenerIn(in.claim)
        /\ \A x \in StringsOf(in.source_metadata.loc_selector)
                    \cup StringsOf(in.source_metadata.source_uri) : NoOpenerIn(x)
        /\ rel.given =>
              /\ ValidRmInput(MarkerArgsOf(rel))
              /\ \A x \in {MarkerArgsOf(rel).relationship_id, MarkerArgsOf(rel).rel_type}
                          \cup {MarkerArgsOf(rel).dependency_claims[d] :
                                    d \in 1..Len(MarkerArgsOf(rel).dependency_claims)}
                          \cup StringsOf(rel.SYNTHESIS_PROSE) \cup StringsOf(rel.LOGIC_MODEL)
                          \cup StringsOf(rel.TIMESTAMP) : NoOpenerIn(x)

(* what parse_acg_data returned for the annotated text is the marker, the
   relationship marker when expected, and the two drafts *)
AnnotatedTextRecovered(expect_rm) ==
    /\ parsed.raised = ""
    /\ Len(parsed.igms) = 1
    /\ parsed.igms[1].claim_id = <<"C", "1">>
    /\ parsed.igms[1].shi = FirstChars(input.source_metadata.shi.s, 10)
    /\ IsTrimOf(parsed.igms[1].claim_context, input.claim)
    /\ Len(parsed.rms) = (IF expect_rm THEN 1 ELSE 0)
    /\ PyEq(parsed.ssr_dict, Dict(<<Str(input.source_metadata.shi.s)>>, <<outcome.ssr_entry>>))
    /\ PyEq(parsed.var_dict,
            IF outcome.var_entry.t = "dict"
            THEN Dict(<<DictGet(outcome.var_entry, Str(K_RELATION_ID))>>, <<outcome.var_entry>>)
            ELSE EmptyDict)

(* the annotated text of a successful generate_grounded_text call was parsed *)
AnnotatedTextParsed ==
    /\ origin = "generate_grounded_text"
    /\ outcome.raised = ""
    /\ ~asm.called
    /\ parsed.called

(* C13 as stated: for every claim text without marker or registry marker line
   and every valid source metadata, parse_acg_data on the annotated text of
   generate_grounded_text returns exactly one claim marker (C1, the 10-character
   shi prefix, the trimmed claim as context), exactly one relationship marker
   when relationship metadata was supplied and none otherwise, the source map
   {shi: source draft} and a relation map holding exactly the relation draft. *)
C13_AsStated ==
    (/\ AnnotatedTextParsed
     /\ NoMarkerIn(input.claim)
     /\ ValidSourceMetadata(input.source_metadata)) =>
        AnnotatedTextRecovered(input.relationship_metadata.supplied)

(* C13, amended: the same round trip holds when, besides, no string passed
   (claim, selector, source uri, the values of the relationship metadata) holds
   '[', '(' or the registry start marker, and the relationship metadata, when a
   non-empty one is supplied, has a word-token RELATION_ID, a TYPE without ':'
   and ')' and dependency ids without ',' and ')' that are not the single empty
   id; the relationship marker returned then carries that id, type and ids, and
   there is none when no or empty relationship metadata is supplied. *)
C13_AnnotatedTextRoundTrip ==
    (/\ AnnotatedTextParsed
     /\ ValidSourceMetadata(input.source_metadata)
     /\ CarriableInput(input)) =>
        /\ AnnotatedTextRecovered(input.relationship_metadata.given)
        /\ parsed.igms[1].loc = input.source_metadata.loc_selector.s
        /\ input.relationship_metadata.given =>
              /\ parsed.rms[1].relationship_id = MarkerArgsOf(input.relationship_metadata).relationship_id
              /\ parsed.rms[1].type = MarkerArgsOf(input.relationship_metadata).rel_type
              /\ parsed.rms[1].dep_claims = MarkerArgsOf(input.relationship_metadata).dependency_claims

(* an annotated text with a relationship marker of two dependency ids has
   been parsed and both drafts were returned in the registry maps *)
C13_Witness ==
    /\ AnnotatedTextParsed
    /\ ValidSourceMetadata(input.source_metadata)
    /\ CarriableInput(input)
    /\ input.relationship_metadata.given
    /\ Len(parsed.rms) = 1
    /\ Len(parsed.rms[1].dep_claims) = 2
    /\ Len(parsed.var_dict.k) = 1

----------------------------------------------------------------------------
(* Purity of the operations *)

(* C14: no core operation writes to shared state or to one of its arguments,
   and every value returned is newly constructed: it is made of no mutable
   object that the call was passed. *)
C14_NoSharedMutableState ==
    /\ acg_delimiters = ACG_DELIMITERS
    /\ effects.writes = {}
    /\ effects.returned \cap effects.arguments = {}

----------------------------------------------------------------------------
(* Well-formedness of the markers the producer writes *)

(* the three parts construct_igm writes between the delimiters *)
EmittedParts(in) ==
    [claim_id |-> in.claim_id,
     shi_prefix |-> FirstChars(in.source_metadata.shi.s, SHI_PREFIX_LENGTH),
     location_selector |-> in.source_metadata.loc_selector.s]

WellFormedParts(p) ==
    /\ IsWordToken(p.claim_id)
    /\ Len(p.shi_prefix) >= SHI_PREFIX_MIN
    /\ Len(p.shi_prefix) <= SHI_PREFIX_LENGTH
    /\ p.location_selector # <<>>
    /\ ~Has(p.location_selector, ACG_DELIMITERS.CLAIM_END)

(* C15: every string construct_igm returns has a non-empty word-token
   claim_id, a shi_prefix of 8 to 10 characters and a non-empty
   location_selector without the claim-end delimiter; for every other input
   the call fails. *)
C15_NoHalfFormedMarker ==
    (origin = "construct_igm" /\ outcome.raised = "") =>
        WellFormedParts(EmittedParts(input))

----------------------------------------------------------------------------
(* The configured delimiter tokens *)

DelimiterNames == DOMAIN acg_delimiters

BracketNames == {"CLAIM_START", "CLAIM_END", "RELATION_START", "RELATION_END"}

SeparatorNames == {"CLAIM_SEP", "RELATION_SEP", "RELATION_TYPE_SEP"}

SingleCharacters == \A k \in DelimiterNames : Len(acg_delimiters[k]) = 1

(* C16 as stated: the seven delimiter tokens are each a single character and
   are pairwise distinct. *)
C16_AsStated ==
    /\ Cardinality(DelimiterNames) = 7
    /\ SingleCharacters
    /\ \A k1, k2 \in DelimiterNames :
          k1 # k2 => acg_delimiters[k1] # acg_delimiters[k2]

(* C16, amended: the seven delimiter tokens are each a single character; the
   four bracket tokens are pairwise distinct and distinct from every
   separator; the three separators are the same character ':'. *)
C16_DelimiterTokens ==
    /\ DelimiterNames = BracketNames \cup SeparatorNames
    /\ Cardinality(DelimiterNames) = 7
    /\ SingleCharacters
    /\ \A k1, k2 \in BracketNames :
          k1 # k2 => acg_delimiters[k1] # acg_delimiters[k2]
    /\ \A b \in BracketNames, p \in SeparatorNames :
          acg_delimiters[b] # acg_delimiters[p]
    /\ \A p \in SeparatorNames : acg_delimiters[p] = ":"

(* a relationship marker written with the two equal separators and read back
   with its three parts, beside a claim marker written with the third *)
C16_Witness ==
    /\ origin = "generate_grounded_text"
    /\ outcome.raised = ""
    /\ parsed.called
    /\ Len(parsed.igms) = 1
    /\ Len(parsed.rms) = 1
    /\ parsed.rms[1].type = input.relationship_metadata.TYPE.s
    /\ Len(parsed.rms[1].dep_claims) = 2

----------------------------------------------------------------------------
(* The registry block among several marker lines *)

(* the positions in s where the start marker line stands: the literal start
   marker with the line break that ends its line *)
StartLinesIn(s) == {i \in 1..Len(s) : IsAt(s, i, ACG_START_LINE \o <<"\n">>)}

(* the positions in s where an end marker line begins: a line break with the
   literal end marker after it *)
EndLinesIn(s) == {j \in 1..Len(s) : IsAt(s, j, <<"\n">> \o ACG_END_LINE)}

Least(S) == CHOOSE x \in S : \A y \in S : x <= y

(* where the content of the first start marker line begins *)
FirstContentStart(s) == Least(StartLinesIn(s)) + Len(ACG_START_LINE) + 1

(* the end marker lines that follow the first start marker line *)
FollowingEndLines(s) == {j \in EndLinesIn(s) : j >= FirstContentStart(s)}

HasFirstBlock(s) == StartLinesIn(s) # {} /\ FollowingEndLines(s) # {}

(* the content from the first start marker line to the nearest end marker
   line after it *)
FirstBlockContent(s) ==
    Slice(s, FirstContentStart(s), Least(FollowingEndLines(s)) - 1)

(* the first block standing alone *)
FirstBlockAlone(s) ==
    ACG_START_LINE \o <<"\n">> \o FirstBlockContent(s) \o <<"\n">> \o ACG_END_LINE

(* C17: the registry maps parse_acg_data returns are those of the block from
   the first start marker line to the nearest end marker line after it, taken
   alone; later marker lines and blocks contribute nothing, and without such a
   block there is no registry. *)
C17_FirstRegistryBlock ==
    parsed.called =>
        IF HasFirstBlock(text)
        THEN LET alone == parse_acg_data(FirstBlockAlone(text))
             IN  /\ parsed.raised = alone.raised
                 /\ parsed.ssr_dict = alone.ssr_dict
                 /\ parsed.var_dict = alone.var_dict
        ELSE /\ parsed.raised = ""
             /\ parsed.ssr_dict = PyNone
             /\ parsed.var_dict = PyNone

(* a document with two registry blocks, parsed to the one source of the first *)
C17_Witness ==
    /\ parsed.called
    /\ Cardinality(StartLinesIn(text)) = 2
    /\ Cardinality(EndLinesIn(text)) = 2
    /\ parsed.ssr_dict.t = "dict"
    /\ parsed.ssr_dict.k = <<Str(<<"a">>)>>
    /\ parsed.var_dict.t = "dict"

----------------------------------------------------------------------------
(* The keys of the registry maps *)

(* the list under list_key of the registry block of s *)
BlockList(s, list_key) ==
    DictGet(json_loads(FirstBlockContent(s)).v, Str(list_key)).l

(* map is keyed by the id_key field of its entries, holds one entry per
   distinct id of items, and for each id the last item that carries it *)
KeyedByLast(map, items, id_key) ==
    /\ \A i \in 1..Len(map.k) : DictGet(map.l[i], Str(id_key)) = map.k[i]
    /\ \A i, j \in 1..Len(map.k) : map.k[i] = map.k[j] => i = j
    /\ {map.k[i] : i \in 1..Len(map.k)}
          = {DictGet(items[n], Str(id_key)) : n \in 1..Len(items)}
    /\ \A n \in 1..Len(items) :
          (\A h \in (n + 1)..Len(items) :
               DictGet(items[h], Str(id_key)) # DictGet(items[n], Str(id_key)))
          => DictGet(map, DictGet(items[n], Str(id_key))) = items[n]

(* C18: in every registry result that is not None, each key of the source map
   is the SHI of its entry and each key of the relation map the RELATION_ID of
   its entry; each map holds one entry per distinct id of the block's list,
   and of several list entries with one id the last in list order. *)
C18_RegistryMapsKeyed ==
    (parsed.called /\ parsed.raised = "") =>
        /\ parsed.ssr_dict # PyNone =>
              KeyedByLast(parsed.ssr_dict, BlockList(text, K_SSR), K_SHI)
        /\ parsed.var_dict # PyNone =>
              KeyedByLast(parsed.var_dict, BlockList(text, K_VAR), K_RELATION_ID)

(* a block whose SSR list holds three entries, two of them with one SHI *)
C18_Witness ==
    /\ parsed.called
    /\ parsed.ssr_dict # PyNone
    /\ parsed.var_dict # PyNone
    /\ Len(parsed.var_dict.k) = 1
    /\ Len(BlockList(text, K_SSR)) = 3
    /\ Len(parsed.ssr_dict.k) = 2
    /\ HasKey(DictGet(parsed.ssr_dict, Str(<<"a">>)), Str(<<"x">>))

----------------------------------------------------------------------------
(* The markers of an assembled document *)

(* C19: the claim markers, with their claim_context, and the relationship
   markers that parse_acg_data returns for an assembled document are exactly
   those it returns for the trimmed text that was assembled; no string of the
   appended registry block is returned as a marker. *)
C19_AssemblingAddsNoMarkers ==
    (asm.called /\ asm.raised = "" /\ parsed.called /\ parsed.raised = "") =>
        LET alone == parse_acg_data(strip(asm.generated_text))
        IN  /\ parsed.igms = alone.igms
            /\ parsed.rms = alone.rms

----------------------------------------------------------------------------
(* The chunks of a page *)

(* the ids of the first chunks, in order *)
ChunkIds ==
    <<<<"c", "h", "u", "n", "k", "_", "1">>,
      <<"c", "h", "u", "n", "k", "_", "2">>,
      <<"c", "h", "u", "n", "k", "_", "3">>,
      <<"c", "h", "u", "n", "k", "_", "4">>,
      <<"c", "h", "u", "n", "k", "_", "5">>,
      <<"c", "h", "u", "n", "k", "_", "6">>,
      <<"c", "h", "u", "n", "k", "_", "7">>,
      <<"c", "h", "u", "n", "k", "_", "8">>,
      <<"c", "h", "u", "n", "k", "_", "9">>,
      <<"c", "h", "u", "n", "k", "_", "1", "0">>,
      <<"c", "h", "u", "n", "k", "_", "1", "1">>,
      <<"c", "h", "u", "n", "k", "_", "1", "2">>,
      <<"c", "h", "u", "n", "k", "_", "1", "3">>>>

(* the number of chunks of n sentences each that hold count sentences *)
ChunksNeeded(count, n) == (count + n - 1) \div n

Min(a, b) == IF a < b THEN a ELSE b

(* C20: for a non-empty sentence list and sentences_per_chunk >= 1 the chunks
   partition the list: chunk k holds, joined by a space, the sentences
   (k-1)*n+1 .. k*n in their order (the last chunk those up to the end of the
   list, between 1 and n of them), so none is lost or repeated; the ids are
   chunk_1, chunk_2, ... without gap or repeat; and each chunk's loc_selector
   is the selector of its first sentence. *)
C20_ChunksPartitionSentences ==
    (/\ origin = "index_url"
     /\ input.all_sentences_data # <<>>
     /\ input.sentences_per_chunk >= 1) =>
        LET all == input.all_sentences_data
            n == input.sentences_per_chunk
            first(k) == (k - 1) * n + 1
            last(k) == Min(k * n, Len(all))
        IN  /\ Len(chunks_to_store) = ChunksNeeded(Len(all), n)
            /\ \A k \in 1..Len(chunks_to_store) :
                  /\ first(k) <= last(k)
                  /\ k < Len(chunks_to_store) => last(k) - first(k) + 1 = n
                  /\ chunks_to_store[k].content
                        = join(<<" ">>, [i \in 1..(last(k) - first(k) + 1) |->
                                            all[first(k) + i - 1].text])
                  /\ chunks_to_store[k].chunk_id = ChunkIds[k]
                  /\ chunks_to_store[k].loc_selector = Some(all[first(k)].loc_selector)
                  /\ chunks_to_store[k].metadata.loc = chunks_to_store[k].loc_selector

(* eleven sentences in chunks of two: five full chunks and a last chunk of one
   sentence *)
C20_Witness ==
    /\ origin = "index_url"
    /\ Len(input.all_sentences_data) = 11
    /\ input.sentences_per_chunk = 2
    /\ Len(chunks_to_store) = 6
    /\ chunks_to_store[6].content = input.all_sentences_data[11].text
    /\ chunks_to_store[6].chunk_id = ChunkIds[6]

====
